---------------------------- MODULE Spec2Model ----------------------------
(***************************************************************************)
(* A model of token-total: the byte pair encoder (src/core/bpe.js) and the *)
(* Encoding class built on it (src/core/encoding.js).                      *)
(*                                                                         *)
(* Bytes are integers 0..255, a Uint8Array is a sequence of bytes, a JS    *)
(* string is a sequence of UTF-16 code units, a JS Map is a record of its  *)
(* insertion order and its key -> value function.  A base64 key is the     *)
(* sequence of its characters, each given by its index in the base64       *)
(* alphabet (0..63, and 64 for the padding '=').  JS indices are 0-based:  *)
(* At(s, i) reads s[i].                                                    *)
(***************************************************************************)
EXTENDS Integers, Sequences, FiniteSets, TLC

(* ------------------------------ bounds -------------------------------- *)

\* Longest piece handed to BytePairEncoder.encode.
MaxPieceLen == 4

\* The longest text of ordinary characters, in UTF-16 code units.
MaxTextLen == 3

\* The longest text over the characters of the special tokens.
MaxSpecialTextLen == 4

\* The longest token sequence that is decoded.
MaxTokens == 2

\* How many loads of one vocabulary the registry is followed through.
MaxLoads == 2

(* --------------------------- JS primitives ---------------------------- *)

\* JS Infinity: greater than every rank.
Infinity == 2147483647

Byte == 0..255

At(s, i) == s[i + 1]

\* Array.prototype.slice / TypedArray.prototype.slice / String.prototype.slice
\* for 0 <= start, with end clamped to the length.
Slice(s, start, end) ==
  LET e == IF end > Len(s) THEN Len(s) ELSE end
  IN IF start >= e THEN <<>> ELSE SubSeq(s, start + 1, e)

\* Array.prototype.splice(i, 1)
Splice1(s, i) == SubSeq(s, 1, i) \o SubSeq(s, i + 2, Len(s))

Range(s) == {s[i] : i \in 1..Len(s)}

RECURSIVE Flatten(_)
Flatten(ss) == IF ss = <<>> THEN <<>> ELSE Head(ss) \o Flatten(Tail(ss))

\* A JS Map: order is the keys in insertion order, get the key -> value function.
MapHas(m, k) == k \in DOMAIN m.get

MapGet(m, k) == m.get[k]

MapSize(m) == Len(m.order)

\* new Map()
EmptyMap == [order |-> <<>>, get |-> <<>>]

\* Map.prototype.set: a key already present keeps its place in the order.
MapSet(m, k, v) ==
  IF k \in DOMAIN m.get
    THEN [order |-> m.order, get |-> [m.get EXCEPT ![k] = v]]
    ELSE [order |-> Append(m.order, k), get |-> (k :> v) @@ m.get]

\* entries[1], entries[2], ... set in turn, each entry a <<key, value>>: a key
\* takes its place in the order when it is first set, and keeps its last value.
MapSetAll(m, entries) ==
  LET n        == Len(entries)
      isNew(i) == /\ entries[i][1] \notin DOMAIN m.get
                  /\ \A j \in 1..(i - 1) : entries[j][1] # entries[i][1]
      firsts   == SelectSeq([i \in 1..n |-> i], isNew)
      last(k)  == LET at == {i \in 1..n : entries[i][1] = k}
                  IN CHOOSE i \in at : \A j \in at : j <= i
      set      == {entries[i][1] : i \in 1..n}
  IN [order |-> m.order \o [i \in 1..Len(firsts) |-> entries[firsts[i]][1]],
      get   |-> [k \in DOMAIN m.get \cup set |->
                   IF k \in set THEN entries[last(k)][2] ELSE m.get[k]]]

\* A Map with distinct keys, given whole.
MapOfDistinct(entries) ==
  [order |-> [i \in 1..Len(entries) |-> entries[i][1]],
   get   |-> [k \in {entries[i][1] : i \in 1..Len(entries)} |->
                (CHOOSE e \in Range(entries) : e[1] = k)[2]]]

(* ------------------------------ base64 -------------------------------- *)

\* The index standing for the padding character '='.
Pad == 64

\* One group of btoa: 1..3 bytes to 4 base64 characters.
BtoaGroup(g) ==
  LET b1 == g[1]
      b2 == IF Len(g) >= 2 THEN g[2] ELSE 0
      b3 == IF Len(g) >= 3 THEN g[3] ELSE 0
  IN << b1 \div 4,
        (b1 % 4) * 16 + (b2 \div 16),
        IF Len(g) >= 2 THEN (b2 % 16) * 4 + (b3 \div 64) ELSE Pad,
        IF Len(g) >= 3 THEN b3 % 64 ELSE Pad >>

RECURSIVE btoa(_)
btoa(binary) ==
  IF binary = <<>> THEN <<>>
  ELSE IF Len(binary) <= 3 THEN BtoaGroup(binary)
  ELSE BtoaGroup(SubSeq(binary, 1, 3)) \o btoa(SubSeq(binary, 4, Len(binary)))

\* One group of atob: 4 base64 characters to 1..3 bytes.
AtobGroup(q) ==
  LET c3 == IF q[3] = Pad THEN 0 ELSE q[3]
      c4 == IF q[4] = Pad THEN 0 ELSE q[4]
      b1 == q[1] * 4 + (q[2] \div 16)
      b2 == (q[2] % 16) * 16 + (c3 \div 4)
      b3 == (c3 % 4) * 64 + c4
  IN IF q[3] = Pad THEN <<b1>>
     ELSE IF q[4] = Pad THEN <<b1, b2>>
     ELSE <<b1, b2, b3>>

RECURSIVE atob(_)
atob(key) ==
  IF key = <<>> THEN <<>>
  ELSE AtobGroup(SubSeq(key, 1, 4)) \o atob(SubSeq(key, 5, Len(key)))

\* BytePairEncoder.bytesToKey: the bytes as a binary string, then btoa.
bytesToKey(bytes) == btoa(bytes)

\* BytePairEncoder.keyToBytes: atob, then the char codes as bytes.
keyToBytes(key) == atob(key)

(* ------------------------- BytePairEncoder ---------------------------- *)

\* ranks.get(key), with undefined read as Infinity
\* (rank !== undefined ? rank : Infinity).
RankOrInfinity(ranks, bytes) ==
  LET key == bytesToKey(bytes)
  IN IF MapHas(ranks, key) THEN MapGet(ranks, key) ELSE Infinity

\* A slip in _getRank: the span ends two boundaries ahead instead of three.
getRank_SpanTwo(ranks, piece, parts, i) ==
  IF i + 3 >= Len(parts) THEN Infinity
  ELSE RankOrInfinity(ranks, Slice(piece, At(parts, i).pos, At(parts, i + 2).pos))

\* BytePairEncoder._getRank
getRank(ranks, piece, parts, i) ==
  IF i + 3 >= Len(parts) THEN Infinity
  ELSE LET start == At(parts, i).pos
           end   == At(parts, i + 3).pos
       IN RankOrInfinity(ranks, Slice(piece, start, end))

\* Phase 1 of _bytePairMerge: the pushes of the for loop, then the two sentinels.
InitParts(ranks, piece) ==
  [i \in 1..(Len(piece) - 1) |->
     [pos |-> i - 1, rank |-> RankOrInfinity(ranks, Slice(piece, i - 1, i + 1))]]
  \o << [pos |-> Len(piece) - 1, rank |-> Infinity],
        [pos |-> Len(piece), rank |-> Infinity] >>

\* A slip in the scan: <= keeps the last of several equal minima.
RECURSIVE ScanMin_LastOnTies(_, _, _, _)
ScanMin_LastOnTies(parts, j, upto, cur) ==
  IF j >= upto THEN cur
  ELSE ScanMin_LastOnTies(parts, j + 1, upto,
               IF At(parts, j).rank <= cur.rank /\ At(parts, j).rank # Infinity
                 THEN [rank |-> At(parts, j).rank, index |-> j]
                 ELSE cur)

\* The scans of _bytePairMerge for the minimum: j runs from `from` while
\* j < upto, and an entry replaces the current minimum only when strictly lower.
RECURSIVE ScanMin(_, _, _, _)
ScanMin(parts, j, upto, cur) ==
  IF j >= upto THEN cur
  ELSE ScanMin(parts, j + 1, upto,
               IF At(parts, j).rank < cur.rank
                 THEN [rank |-> At(parts, j).rank, index |-> j]
                 ELSE cur)

NoMin == [rank |-> Infinity, index |-> -1]

\* minRank after phase 1: the loop over i < piece.length - 1.
InitMinRank(ranks, piece) ==
  ScanMin(InitParts(ranks, piece), 0, Len(piece) - 1, NoMin)

\* The rescan at the end of a merge iteration: j < parts.length - 1.
FindMinRank(parts) == ScanMin(parts, 0, Len(parts) - 1, NoMin)

\* const maxIterations = piece.length * 2
MaxIterations(piece) == Len(piece) * 2

\* A slip in the merge: the ranks are updated and nothing is removed.
MergeAt_NoSplice(ranks, piece, parts, i) ==
  LET p1 == IF i > 0
              THEN [parts EXCEPT ![i].rank = getRank(ranks, piece, parts, i - 1)]
              ELSE parts
  IN [p1 EXCEPT ![i + 1].rank = getRank(ranks, piece, p1, i)]

\* The two rank updates and the splice of one merge iteration at index i.
MergeAt(ranks, piece, parts, i) ==
  LET p1 == IF i > 0
              THEN [parts EXCEPT ![i].rank = getRank(ranks, piece, parts, i - 1)]
              ELSE parts
      p2 == [p1 EXCEPT ![i + 1].rank = getRank(ranks, piece, p1, i)]
  IN Splice1(p2, i + 1)

\* One pass through the body of the while loop of _bytePairMerge, from the
\* loop state st = [parts, minRank, iterations, thrown].
MergeIteration(ranks, piece, st) ==
  LET it == st.iterations + 1
  IN IF it > MaxIterations(piece)
       THEN [st EXCEPT !.iterations = it, !.thrown = "infinite loop"]
       ELSE LET np == MergeAt(ranks, piece, st.parts, st.minRank.index)
            IN [parts |-> np, minRank |-> FindMinRank(np),
                iterations |-> it, thrown |-> "none"]

\* The loop state when the while loop of _bytePairMerge is first reached.
MergeStart(ranks, piece) ==
  [parts |-> InitParts(ranks, piece), minRank |-> InitMinRank(ranks, piece),
   iterations |-> 0, thrown |-> "none"]

\* while (minRank.rank !== Infinity) { ... }, run to its end or to the throw.
RECURSIVE MergeLoop(_, _, _)
MergeLoop(ranks, piece, st) ==
  IF st.thrown # "none" \/ st.minRank.rank = Infinity THEN st
  ELSE MergeLoop(ranks, piece, MergeIteration(ranks, piece, st))

\* BytePairEncoder._bytePairMerge: the final loop state (parts, or the throw).
bytePairMerge(ranks, piece) == MergeLoop(ranks, piece, MergeStart(ranks, piece))

\* A call's outcome: a return value or a throw.
Return(v) == [status |-> "ok", value |-> v, error |-> "none"]

Throw(e) == [status |-> "throw", value |-> <<>>, error |-> e]

\* A slip in the slice lookup: a slice that is no key is left out.
RECURSIVE SliceTokens_SkipMissing(_, _, _, _, _)
SliceTokens_SkipMissing(ranks, piece, parts, i, tokens) ==
  IF i >= Len(parts) - 1 THEN Return(tokens)
  ELSE LET key == bytesToKey(Slice(piece, At(parts, i).pos, At(parts, i + 1).pos))
       IN SliceTokens_SkipMissing(ranks, piece, parts, i + 1,
            IF MapHas(ranks, key) THEN Append(tokens, MapGet(ranks, key)) ELSE tokens)

\* The slice lookup of BytePairEncoder.encode: parts to token ids, throwing at
\* the first slice that is no key.
RECURSIVE SliceTokens(_, _, _, _, _)
SliceTokens(ranks, piece, parts, i, tokens) ==
  IF i >= Len(parts) - 1 THEN Return(tokens)
  ELSE LET key == bytesToKey(Slice(piece, At(parts, i).pos, At(parts, i + 1).pos))
       IN IF ~MapHas(ranks, key) THEN Throw("sequence not in vocabulary")
          ELSE SliceTokens(ranks, piece, parts, i + 1,
                           Append(tokens, MapGet(ranks, key)))

\* The length-1 branch before the strict validation: a missing byte is skipped.
EncodeSingleByte_Silent(ranks, piece) ==
  LET key == bytesToKey(piece)
  IN IF ~MapHas(ranks, key) THEN Return(<<>>)
     ELSE Return(<<MapGet(ranks, key)>>)

\* The length-1 branch of BytePairEncoder.encode.
EncodeSingleByte(ranks, piece) ==
  LET key == bytesToKey(piece)
  IN IF ~MapHas(ranks, key) THEN Throw("single byte not in vocabulary")
     ELSE Return(<<MapGet(ranks, key)>>)

\* A slip in the slice loop: i < parts.length - 2 drops the last segment.
EncodeFinish_DropLast(ranks, piece, st) ==
  IF st.thrown # "none" THEN Throw(st.thrown)
  ELSE SliceTokens(ranks, piece, SubSeq(st.parts, 1, Len(st.parts) - 1), 0, <<>>)

\* What BytePairEncoder.encode does with the final loop state.
EncodeFinish(ranks, piece, st) ==
  IF st.thrown # "none" THEN Throw(st.thrown)
  ELSE SliceTokens(ranks, piece, st.parts, 0, <<>>)

\* BytePairEncoder.encode
BpeEncode(ranks, piece) ==
  IF Len(piece) = 1 THEN EncodeSingleByte(ranks, piece)
  ELSE EncodeFinish(ranks, piece, bytePairMerge(ranks, piece))

(* ------------------- strings, TextEncoder, TextDecoder ---------------- *)

\* A JS string is a sequence of UTF-16 code units.
IsHighSurrogate(u) == 55296 <= u /\ u <= 56319

IsLowSurrogate(u) == 56320 <= u /\ u <= 57343

\* U+FFFD, the replacement character.
ReplacementChar == 65533

\* The code points of a string: a high surrogate followed by a low one is one
\* code point, any other unit (a lone surrogate too) stands for itself.  This
\* is how a regular expression with the u flag and TextEncoder read a string.
RECURSIVE CodePoints(_)
CodePoints(units) ==
  IF units = <<>> THEN <<>>
  ELSE IF Len(units) >= 2 /\ IsHighSurrogate(units[1]) /\ IsLowSurrogate(units[2])
    THEN << 65536 + (units[1] - 55296) * 1024 + (units[2] - 56320) >>
         \o CodePoints(SubSeq(units, 3, Len(units)))
    ELSE << units[1] >> \o CodePoints(Tail(units))

\* The UTF-16 code units of one code point.
UnitsOfCodePoint(c) ==
  IF c >= 65536
    THEN << 55296 + ((c - 65536) \div 1024), 56320 + ((c - 65536) % 1024) >>
    ELSE << c >>

UnitsOf(cps) == Flatten([i \in 1..Len(cps) |-> UnitsOfCodePoint(cps[i])])

\* The UTF-8 bytes of one scalar value.
Utf8OfScalar(c) ==
  IF c < 128 THEN << c >>
  ELSE IF c < 2048 THEN << 192 + (c \div 64), 128 + (c % 64) >>
  ELSE IF c < 65536
    THEN << 224 + (c \div 4096), 128 + ((c \div 64) % 64), 128 + (c % 64) >>
  ELSE << 240 + (c \div 262144), 128 + ((c \div 4096) % 64),
          128 + ((c \div 64) % 64), 128 + (c % 64) >>

\* new TextEncoder().encode(string): a lone surrogate is encoded as U+FFFD.
TextEncode(units) ==
  LET cps == CodePoints(units)
  IN Flatten([i \in 1..Len(cps) |->
       IF IsHighSurrogate(cps[i]) \/ IsLowSurrogate(cps[i])
         THEN Utf8OfScalar(ReplacementChar)
         ELSE Utf8OfScalar(cps[i])])

\* The UTF-8 decoder of the Encoding Standard, from byte i on.  need, seen, cp,
\* lo and hi are its 'bytes needed', 'bytes seen', 'code point' and 'lower /
\* upper boundary'.  Every error emits U+FFFD and sets bad.
RECURSIVE Utf8Decode(_, _, _, _, _, _, _, _, _)
Utf8Decode(bytes, i, need, seen, cp, lo, hi, out, bad) ==
  IF i > Len(bytes)
    THEN IF need # 0 THEN [out |-> Append(out, ReplacementChar), bad |-> TRUE]
         ELSE [out |-> out, bad |-> bad]
  ELSE LET b == bytes[i]
       IN IF need = 0
            THEN IF b <= 127
                   THEN Utf8Decode(bytes, i + 1, 0, 0, 0, 128, 191, Append(out, b), bad)
                 ELSE IF 194 <= b /\ b <= 223
                   THEN Utf8Decode(bytes, i + 1, 1, 0, b - 192, 128, 191, out, bad)
                 ELSE IF 224 <= b /\ b <= 239
                   THEN Utf8Decode(bytes, i + 1, 2, 0, b - 224,
                                   IF b = 224 THEN 160 ELSE 128,
                                   IF b = 237 THEN 159 ELSE 191, out, bad)
                 ELSE IF 240 <= b /\ b <= 244
                   THEN Utf8Decode(bytes, i + 1, 3, 0, b - 240,
                                   IF b = 240 THEN 144 ELSE 128,
                                   IF b = 244 THEN 143 ELSE 191, out, bad)
                 ELSE Utf8Decode(bytes, i + 1, 0, 0, 0, 128, 191,
                                 Append(out, ReplacementChar), TRUE)
          ELSE IF b < lo \/ b > hi
            \* the byte is put back and read again in the initial state
            THEN Utf8Decode(bytes, i, 0, 0, 0, 128, 191,
                            Append(out, ReplacementChar), TRUE)
          ELSE IF seen + 1 = need
            THEN Utf8Decode(bytes, i + 1, 0, 0, 0, 128, 191,
                            Append(out, cp * 64 + (b - 128)), bad)
          ELSE Utf8Decode(bytes, i + 1, need, seen + 1, cp * 64 + (b - 128),
                          128, 191, out, bad)

\* The UTF-8 byte order mark.
Utf8Bom == <<239, 187, 191>>

\* new TextDecoder('utf-8', {fatal, ignoreBOM}).decode(bytes): without
\* ignoreBOM a leading byte order mark is dropped; with fatal a malformed
\* sequence throws a TypeError.
TextDecode(bytes, fatal, ignoreBOM) ==
  LET body == IF ~ignoreBOM /\ Len(bytes) >= 3 /\ SubSeq(bytes, 1, 3) = Utf8Bom
                THEN SubSeq(bytes, 4, Len(bytes)) ELSE bytes
      d    == Utf8Decode(body, 1, 0, 0, 0, 128, 191, <<>>, FALSE)
  IN IF fatal /\ d.bad THEN Throw("TypeError: invalid utf-8")
     ELSE Return(UnitsOf(d.out))

(* ---------------- the pre-tokenization patterns (registry.js) --------- *)

(* The character classes of the patterns, exact for the code points below    *)
(* U+0100 and for the others the texts of this model are drawn from (U+FEFF, *)
(* surrogates, U+1F600, U+FFFD).                                            *)

\* \p{L}
IsLetter(c) ==
  \/ (65 <= c /\ c <= 90) \/ (97 <= c /\ c <= 122)
  \/ c \in {170, 181, 186}
  \/ (192 <= c /\ c <= 214) \/ (216 <= c /\ c <= 246) \/ (248 <= c /\ c <= 255)

\* \p{N}
IsNumber(c) == (48 <= c /\ c <= 57) \/ c \in {178, 179, 185, 188, 189, 190}

\* \s of a JS regular expression
IsSpace(c) == (9 <= c /\ c <= 13) \/ c \in {32, 160, 65279}

\* [\r\n]
IsNewline(c) == c \in {10, 13}

\* [^\s\p{L}\p{N}]
IsOther(c) == ~IsSpace(c) /\ ~IsLetter(c) /\ ~IsNumber(c)

\* [^\r\n\p{L}\p{N}]
IsLetterPrefix(c) == ~IsNewline(c) /\ ~IsLetter(c) /\ ~IsNumber(c)

\* The length of the longest run of characters of class P from position p on.
RunLen(cps, p, P(_)) ==
  LET stops == {q \in p..(Len(cps) + 1) : q = Len(cps) + 1 \/ ~P(cps[q])}
  IN (CHOOSE q \in stops : \A r \in stops : q <= r) - p

\* ASCII lower case (the case folding of (?i:...) on the letters it names).
Lower(c) == IF 65 <= c /\ c <= 90 THEN c + 32 ELSE c

\* '(?i:[sdmt]|ll|ve|re) with fold = Lower, '(?:[sdmt]|ll|ve|re) without.
\* Each Match operator gives the length of the match at p, 0 for no match.
MatchContraction(cps, p, foldCase) ==
  LET n    == Len(cps)
      f(c) == IF foldCase THEN Lower(c) ELSE c
  IN IF cps[p] # 39 \/ p + 1 > n THEN 0
     ELSE IF f(cps[p + 1]) \in {115, 100, 109, 116} THEN 2
     ELSE IF p + 2 <= n /\ << f(cps[p + 1]), f(cps[p + 2]) >>
                             \in { <<108, 108>>, <<118, 101>>, <<114, 101>> } THEN 3
     ELSE 0

\* [^\r\n\p{L}\p{N}]?\p{L}+
MatchPrefixedLetters(cps, p) ==
  IF IsLetterPrefix(cps[p]) /\ p + 1 <= Len(cps) /\ IsLetter(cps[p + 1])
    THEN 1 + RunLen(cps, p + 1, IsLetter)
    ELSE RunLen(cps, p, IsLetter)

\* \p{N}{1,3}
MatchDigits3(cps, p) ==
  LET k == RunLen(cps, p, IsNumber) IN IF k > 3 THEN 3 ELSE k

\* An optional space, then a run of class P:  ?\p{L}+,  ?\p{N}+,  ?[^\s\p{L}\p{N}]+
MatchSpaceRun(cps, p, P(_)) ==
  LET q == IF cps[p] = 32 THEN p + 1 ELSE p
      k == RunLen(cps, q, P)
  IN IF k = 0 THEN 0 ELSE (q - p) + k

\*  ?[^\s\p{L}\p{N}]+[\r\n]*
MatchOtherNewlines(cps, p) ==
  LET k == MatchSpaceRun(cps, p, IsOther)
  IN IF k = 0 THEN 0 ELSE k + RunLen(cps, p + k, IsNewline)

\* \s+$
MatchSpaceToEnd(cps, p) ==
  LET k == RunLen(cps, p, IsSpace)
  IN IF k >= 1 /\ p + k = Len(cps) + 1 THEN k ELSE 0

\* \s*[\r\n]: the run of white space up to its last newline.
MatchSpaceNewline(cps, p) ==
  LET k   == RunLen(cps, p, IsSpace)
      nls == {q \in p..(p + k - 1) : IsNewline(cps[q])}
  IN IF nls = {} THEN 0
     ELSE (CHOOSE q \in nls : \A r \in nls : r <= q) - p + 1

\* \s+(?!\S): a run of white space not followed by a non-space; before a
\* non-space the run gives back its last character.
MatchSpaceLookahead(cps, p) ==
  LET k == RunLen(cps, p, IsSpace)
  IN IF k = 0 THEN 0
     ELSE IF p + k = Len(cps) + 1 THEN k
     ELSE k - 1

\* \s
MatchSpace(cps, p) == IF IsSpace(cps[p]) THEN 1 ELSE 0

\* The first alternative, in order, that matches at p.
FirstMatch(lens) ==
  LET hits == {i \in 1..Len(lens) : lens[i] > 0}
  IN IF hits = {} THEN 0 ELSE lens[CHOOSE i \in hits : \A j \in hits : i <= j]

\* cl100k_base
MatchCl100k(cps, p) ==
  FirstMatch(<< MatchContraction(cps, p, TRUE),
                MatchPrefixedLetters(cps, p),
                MatchDigits3(cps, p),
                MatchOtherNewlines(cps, p),
                MatchSpaceToEnd(cps, p),
                MatchSpaceNewline(cps, p),
                MatchSpaceLookahead(cps, p),
                MatchSpace(cps, p) >>)

\* r50k_base, p50k_base, p50k_edit
MatchR50k(cps, p) ==
  FirstMatch(<< MatchContraction(cps, p, FALSE),
                MatchSpaceRun(cps, p, IsLetter),
                MatchSpaceRun(cps, p, IsNumber),
                MatchSpaceRun(cps, p, IsOther),
                MatchSpaceToEnd(cps, p),
                MatchSpaceLookahead(cps, p),
                MatchSpace(cps, p) >>)

\* The pattern strings of the model: two of the registry, and the pattern with
\* possessive quantifiers, which new RegExp rejects.
PatStrs == {"cl100k_base", "r50k_base", "possessive"}

\* new RegExp(patStr, 'gu') throws.
PatternInvalid(patStr) == patStr = "possessive"

MatchAt(patStr, cps, p) ==
  IF patStr = "cl100k_base" THEN MatchCl100k(cps, p) ELSE MatchR50k(cps, p)

\* text.match(pattern) with the flags gu: the matches from left to right, each
\* search starting where the last match ended; a character at which no
\* alternative matches is skipped.  The matches are given as code points.
RECURSIVE PatternMatches(_, _, _)
PatternMatches(patStr, cps, p) ==
  IF p > Len(cps) THEN <<>>
  ELSE LET k == MatchAt(patStr, cps, p)
       IN IF k = 0 THEN PatternMatches(patStr, cps, p + 1)
          ELSE << SubSeq(cps, p, p + k - 1) >> \o PatternMatches(patStr, cps, p + k)

(* ------------------------------ Encoding ------------------------------ *)

(* An Encoding instance is the record of its fields: mergeableRanks (a Map), *)
(* specialTokens (an object: the record of its keys in order and its         *)
(* key -> value function, like a Map), decoder and specialTokensDecoder      *)
(* (Maps), patStr and maxTokenValue, and specialLastIndex, the lastIndex of  *)
(* this._specialPattern (0 in a new RegExp).  String.prototype.match sets    *)
(* the lastIndex of this._pattern to 0 before it searches and leaves it 0,   *)
(* so that one is never read and is no field here.                           *)

\* Object.keys(obj)
ObjectKeys(obj) == obj.order

Max(S) == CHOOSE x \in S : \A y \in S : y <= x

MapValues(m) == {m.get[k] : k \in DOMAIN m.get}

\* The decoder of the constructor: for (const [key, rank] of mergeableRanks)
\* this._decoder.set(rank, keyToBytes(key)).
BuildDecoder(mergeableRanks) ==
  MapSetAll(EmptyMap,
    [i \in 1..Len(mergeableRanks.order) |->
       << mergeableRanks.get[mergeableRanks.order[i]],
          keyToBytes(mergeableRanks.order[i]) >>])

\* for (const [token, rank] of Object.entries(specialTokens))
\*   this._specialTokensDecoder.set(rank, encoder.encode(token))
BuildSpecialDecoder(specialTokens) ==
  MapSetAll(EmptyMap,
    [i \in 1..Len(specialTokens.order) |->
       << specialTokens.get[specialTokens.order[i]],
          TextEncode(specialTokens.order[i]) >>])

\* this.maxTokenValue
MaxTokenValue(mergeableRanks, specialTokens) ==
  Max({-1} \cup MapValues(mergeableRanks) \cup MapValues(specialTokens))

\* The constructor: the instance, or the throw of an invalid pattern.
Construct(patStr, mergeableRanks, specialTokens) ==
  IF PatternInvalid(patStr) THEN Throw("Invalid regex pattern")
  ELSE Return([ patStr               |-> patStr,
                mergeableRanks       |-> mergeableRanks,
                specialTokens        |-> specialTokens,
                decoder              |-> BuildDecoder(mergeableRanks),
                specialTokensDecoder |-> BuildSpecialDecoder(specialTokens),
                maxTokenValue        |-> MaxTokenValue(mergeableRanks, specialTokens),
                specialLastIndex     |-> 0 ])

\* A slip in the loop of encodeOrdinary: the tokens of a piece are put in
\* front of those collected so far (unshift for push).
RECURSIVE EncodePieces_Unshift(_, _, _)
EncodePieces_Unshift(ranks, matches, tokens) ==
  IF matches = <<>> THEN Return(tokens)
  ELSE LET piece == TextEncode(UnitsOf(Head(matches)))
           key   == bytesToKey(piece)
       IN IF MapHas(ranks, key)
            THEN EncodePieces_Unshift(ranks, Tail(matches), <<MapGet(ranks, key)>> \o tokens)
            ELSE LET r == BpeEncode(ranks, piece)
                 IN IF r.status = "throw" THEN r
                    ELSE EncodePieces_Unshift(ranks, Tail(matches), r.value \o tokens)

\* The loop of encodeOrdinary over the matches, stopping at the first throw.
RECURSIVE EncodePieces(_, _, _)
EncodePieces(ranks, matches, tokens) ==
  IF matches = <<>> THEN Return(tokens)
  ELSE LET piece == TextEncode(UnitsOf(Head(matches)))
           key   == bytesToKey(piece)
       IN IF MapHas(ranks, key)
            THEN EncodePieces(ranks, Tail(matches), Append(tokens, MapGet(ranks, key)))
            ELSE LET r == BpeEncode(ranks, piece)
                 IN IF r.status = "throw" THEN r
                    ELSE EncodePieces(ranks, Tail(matches), tokens \o r.value)

\* A slip in encodeOrdinary: neither the empty text nor the null that
\* text.match returns without a match is looked for.
encodeOrdinary_NoGuards(enc, text) ==
  LET matches == PatternMatches(enc.patStr, CodePoints(text), 1)
  IN IF matches = <<>> THEN Throw("TypeError: matches is not iterable")
     ELSE EncodePieces(enc.mergeableRanks, matches, <<>>)

\* Encoding.encodeOrdinary
encodeOrdinary(enc, text) ==
  IF text = <<>> THEN Return(<<>>)
  ELSE EncodePieces(enc.mergeableRanks,
                    PatternMatches(enc.patStr, CodePoints(text), 1), <<>>)

\* An option of encode: undefined, the string 'all', or a Set of strings.
Undefined == [kind |-> "undefined", set |-> {}]

All == [kind |-> "all", set |-> {}]

SetOf(S) == [kind |-> "set", set |-> S]

\* The string t occurs in text at the 0-based index p.
OccursAt(text, t, p) == p + Len(t) <= Len(text) /\ Slice(text, p, p + Len(t)) = t

\* String.prototype.includes
Includes(text, t) == \E p \in 0..Len(text) : OccursAt(text, t, p)

\* const allowedSpecial = options.allowedSpecial || new Set()
AllowedSpecial(allowedOpt) ==
  IF allowedOpt.kind = "undefined" THEN SetOf({}) ELSE allowedOpt

\* disallowedSpecial, 'all' when the option is undefined
DisallowedSpecial(disallowedOpt) ==
  IF disallowedOpt.kind = "undefined" THEN All ELSE disallowedOpt

\* A slip in the disallowedSet: 'all' taken as every registered special token,
\* the allowed ones included.
DisallowedSet_IgnoresAllowed(enc, allowedSpecial, disallowedSpecial) ==
  IF disallowedSpecial.kind = "all"
    THEN Range(ObjectKeys(enc.specialTokens))
    ELSE disallowedSpecial.set

\* The disallowedSet of encode.
DisallowedSet(enc, allowedSpecial, disallowedSpecial) ==
  IF disallowedSpecial.kind = "all"
    THEN {t \in Range(ObjectKeys(enc.specialTokens)) :
            allowedSpecial.kind # "all" /\ t \notin allowedSpecial.set}
    ELSE disallowedSpecial.set

\* [...text.matchAll(this._specialPattern)]: the pattern is the alternation of
\* the escaped special tokens in key order, with the flag g.  At each index the
\* first alternative that matches wins; the search goes on where the match
\* ended (one further after an empty match).  matchAll searches with a clone
\* of the pattern that starts at the pattern's lastIndex.
RECURSIVE SpecialMatches(_, _, _)
SpecialMatches(text, keys, p) ==
  IF p > Len(text) THEN <<>>
  ELSE LET hits == {i \in 1..Len(keys) : OccursAt(text, keys[i], p)}
       IN IF hits = {} THEN SpecialMatches(text, keys, p + 1)
          ELSE LET t == keys[CHOOSE i \in hits : \A j \in hits : i <= j]
               IN << [index |-> p, token |-> t] >>
                  \o SpecialMatches(text, keys, IF t = <<>> THEN p + 1 ELSE p + Len(t))

\* A slip in the scan: lastEnd stays at the start of the match.
LastEndAfter_Index(match) == match.index

\* lastEnd after an allowed match.
LastEndAfter(match) == match.index + Len(match.token)

\* const isAllowed = allowedSpecial === 'all' || allowedSpecial.has(specialToken)
IsAllowed(allowedSpecial, token) ==
  allowedSpecial.kind = "all" \/ token \in allowedSpecial.set

\* The for loop of encode over the matches and the encoding of the remaining
\* text, stopping at the first throw of encodeOrdinary.
RECURSIVE EncodeScan(_, _, _, _, _, _)
EncodeScan(enc, text, matches, allowedSpecial, lastEnd, tokens) ==
  IF matches = <<>>
    THEN IF lastEnd < Len(text)
           THEN LET r == encodeOrdinary(enc, Slice(text, lastEnd, Len(text)))
                IN IF r.status = "throw" THEN r ELSE Return(tokens \o r.value)
           ELSE Return(tokens)
  ELSE LET m == Head(matches)
       IN IF ~IsAllowed(allowedSpecial, m.token)
            THEN EncodeScan(enc, text, Tail(matches), allowedSpecial, lastEnd, tokens)
            ELSE LET r == IF m.index > lastEnd
                            THEN encodeOrdinary(enc, Slice(text, lastEnd, m.index))
                            ELSE Return(<<>>)
                 IN IF r.status = "throw" THEN r
                    ELSE EncodeScan(enc, text, Tail(matches), allowedSpecial,
                                    LastEndAfter(m),
                                    (tokens \o r.value)
                                      \o << MapGet(enc.specialTokens, m.token) >>)

\* Encoding.encode
encode(enc, text, allowedOpt, disallowedOpt) ==
  IF text = <<>> THEN Return(<<>>)
  ELSE LET allowedSpecial    == AllowedSpecial(allowedOpt)
           disallowedSpecial == DisallowedSpecial(disallowedOpt)
           disallowedSet     == DisallowedSet(enc, allowedSpecial, disallowedSpecial)
       IN IF \E t \in disallowedSet : Includes(text, t)
            THEN Throw("disallowed special token")
          ELSE IF allowedSpecial.kind # "all" /\ allowedSpecial.set = {}
            THEN encodeOrdinary(enc, text)
          ELSE IF ObjectKeys(enc.specialTokens) = <<>>
            THEN encodeOrdinary(enc, text)
          ELSE EncodeScan(enc, text,
                          SpecialMatches(text, ObjectKeys(enc.specialTokens),
                                         enc.specialLastIndex),
                          allowedSpecial, 0, <<>>)

\* encode gets as far as its matchAll.
ScansSpecial(enc, text, allowedOpt, disallowedOpt) ==
  /\ text # <<>>
  /\ ~\E t \in DisallowedSet(enc, AllowedSpecial(allowedOpt),
                             DisallowedSpecial(disallowedOpt)) : Includes(text, t)
  /\ ~(AllowedSpecial(allowedOpt).kind # "all" /\ AllowedSpecial(allowedOpt).set = {})
  /\ ObjectKeys(enc.specialTokens) # <<>>

\* A slip: the pattern itself is used for a search, as by
\* this._specialPattern.test(text), which leaves its lastIndex behind the match.
SpecialLastIndexAfter_Test(enc, text) ==
  LET matches == SpecialMatches(text, ObjectKeys(enc.specialTokens), enc.specialLastIndex)
  IN IF matches = <<>> THEN 0
     ELSE IF Head(matches).token = <<>> THEN Head(matches).index
     ELSE Head(matches).index + Len(Head(matches).token)

\* The lastIndex of this._specialPattern after the matchAll of encode: only
\* the clone has searched.
SpecialLastIndexAfter(enc, text) == enc.specialLastIndex

\* this._decoder.get(token) || this._specialTokensDecoder.get(token): the bytes,
\* or <<-1>> for undefined (a Uint8Array, even an empty one, is truthy).
NoBytes == <<-1>>

\* A slip in the lookup: the special-token table is asked first.
TokenBytes_SpecialFirst(enc, token) ==
  IF MapHas(enc.specialTokensDecoder, token)
    THEN MapGet(enc.specialTokensDecoder, token)
  ELSE IF MapHas(enc.decoder, token) THEN MapGet(enc.decoder, token)
  ELSE NoBytes

\* The lookup of decodeBytes.
TokenBytes(enc, token) ==
  IF MapHas(enc.decoder, token) THEN MapGet(enc.decoder, token)
  ELSE IF MapHas(enc.specialTokensDecoder, token)
    THEN MapGet(enc.specialTokensDecoder, token)
  ELSE NoBytes

\* result.set(bytes, offset) for each of the byte arrays in turn.
RECURSIVE CopyAll(_, _, _)
CopyAll(result, byteArrays, offset) ==
  IF byteArrays = <<>> THEN result
  ELSE LET bytes == Head(byteArrays)
       IN CopyAll([i \in 1..Len(result) |->
                     IF offset < i /\ i <= offset + Len(bytes)
                       THEN bytes[i - offset] ELSE result[i]],
                  Tail(byteArrays), offset + Len(bytes))

\* The first loop of decodeBytes: the byte arrays and their total length, or
\* the throw at the first id in neither table.
RECURSIVE CollectBytes(_, _, _, _)
CollectBytes(enc, tokens, byteArrays, totalLength) ==
  IF tokens = <<>> THEN Return([byteArrays |-> byteArrays, totalLength |-> totalLength])
  ELSE LET bytes == TokenBytes(enc, Head(tokens))
       IN IF bytes = NoBytes THEN Throw("Invalid token ID")
          ELSE CollectBytes(enc, Tail(tokens), Append(byteArrays, bytes),
                            totalLength + Len(bytes))

\* Encoding.decodeBytes
decodeBytes(enc, tokens) ==
  LET c == CollectBytes(enc, tokens, <<>>, 0)
  IN IF c.status = "throw" THEN c
     ELSE Return(CopyAll([i \in 1..c.value.totalLength |-> 0], c.value.byteArrays, 0))

\* A slip in decode: the TextDecoder is made without ignoreBOM.
DecodeText_StripsBom(bytes, errors) == TextDecode(bytes, errors = "strict", FALSE)

\* The TextDecoder of decode: fatal only for 'strict', ignoreBOM: true.
DecodeText(bytes, errors) == TextDecode(bytes, errors = "strict", TRUE)

\* A slip in decode: each token is decoded by itself and the texts are joined.
RECURSIVE decode_PerToken(_, _, _)
decode_PerToken(enc, tokens, errors) ==
  IF tokens = <<>> THEN Return(<<>>)
  ELSE LET b == decodeBytes(enc, <<Head(tokens)>>)
       IN IF b.status = "throw" THEN b
          ELSE LET r    == DecodeText(b.value, errors)
                   rest == decode_PerToken(enc, Tail(tokens), errors)
               IN IF r.status = "throw" THEN r
                  ELSE IF rest.status = "throw" THEN rest
                  ELSE Return(r.value \o rest.value)

\* Encoding.decode
decode(enc, tokens, errors) ==
  LET b == decodeBytes(enc, tokens)
  IN IF b.status = "throw" THEN b
     ELSE LET r == DecodeText(b.value, errors)
          IN IF r.status = "throw" /\ errors = "ignore"
               THEN DecodeText(b.value, errors)
               ELSE r

\* The names of some properties every object inherits from Object.prototype:
\* "valueOf" and "constructor".
ObjectPrototypeKeys ==
  { <<118, 97, 108, 117, 101, 79, 102>>,
    <<99, 111, 110, 115, 116, 114, 117, 99, 116, 111, 114>> }

\* Stands for the function object that such a property holds: no number.
InheritedFunction == -2

\* obj[key] !== undefined, for an object made by an object literal.
PropertyDefined(obj, key) == MapHas(obj, key) \/ key \in ObjectPrototypeKeys

\* obj[key]: an own property, or else the inherited one.
PropertyGet(obj, key) ==
  IF MapHas(obj, key) THEN MapGet(obj, key) ELSE InheritedFunction

\* The argument of encodeSingleToken: a string or a Uint8Array.
StringInput(units) == [type |-> "string", value |-> units]

BytesInput(bytes) == [type |-> "bytes", value |-> bytes]

\* Encoding.encodeSingleToken
encodeSingleToken(enc, textOrBytes) ==
  LET bytes == IF textOrBytes.type = "string"
                 THEN TextEncode(textOrBytes.value) ELSE textOrBytes.value
      key   == bytesToKey(bytes)
  IN IF /\ textOrBytes.type = "string"
        /\ PropertyDefined(enc.specialTokens, textOrBytes.value)
       THEN Return(PropertyGet(enc.specialTokens, textOrBytes.value))
     ELSE IF ~MapHas(enc.mergeableRanks, key) THEN Throw("Token not in vocabulary")
     ELSE Return(MapGet(enc.mergeableRanks, key))

\* A slip in the lookup of decodeSingleTokenBytes: the special-token table is
\* asked first.
SingleTokenBytes_SpecialFirst(enc, token) ==
  IF MapHas(enc.specialTokensDecoder, token)
    THEN MapGet(enc.specialTokensDecoder, token)
  ELSE IF MapHas(enc.decoder, token) THEN MapGet(enc.decoder, token)
  ELSE NoBytes

\* The lookup of decodeSingleTokenBytes:
\* this._decoder.get(token) || this._specialTokensDecoder.get(token)
SingleTokenBytes(enc, token) ==
  IF MapHas(enc.decoder, token) THEN MapGet(enc.decoder, token)
  ELSE IF MapHas(enc.specialTokensDecoder, token)
    THEN MapGet(enc.specialTokensDecoder, token)
  ELSE NoBytes

\* Encoding.decodeSingleTokenBytes
decodeSingleTokenBytes(enc, token) ==
  LET bytes == SingleTokenBytes(enc, token)
  IN IF bytes = NoBytes THEN Throw("Invalid token ID") ELSE Return(bytes)

\* tokens.map(token => this.decodeSingleTokenBytes(token)), ended by the first throw.
RECURSIVE MapDecodeSingle(_, _, _)
MapDecodeSingle(enc, tokens, mapped) ==
  IF tokens = <<>> THEN Return(mapped)
  ELSE LET r == decodeSingleTokenBytes(enc, Head(tokens))
       IN IF r.status = "throw" THEN r
          ELSE MapDecodeSingle(enc, Tail(tokens), Append(mapped, r.value))

\* Encoding.decodeTokensBytes
decodeTokensBytes(enc, tokens) == MapDecodeSingle(enc, tokens, <<>>)

(* ----------------------- inputs: rank tables -------------------------- *)

\* The base vocabulary: every single byte a key, in rank order: rank r is the
\* byte (r + 128) % 256.
BaseEntries == [i \in 1..256 |-> << bytesToKey(<<(i + 127) % 256>>), i - 1 >>]

BaseMap == MapOfDistinct(BaseEntries)

\* The base vocabulary with the byte 'a' missing (an incomplete vocabulary).
GapMap == MapOfDistinct(SelectSeq(BaseEntries, LAMBDA e : e[1] # bytesToKey(<<97>>)))

\* Multi-byte keys a table may hold, over the bytes 'a' (97) and 'b' (98).
CandKeys == << <<97, 98>>, <<97, 97>>, <<97, 98, 97>>, <<97, 97, 98>>, <<97, 97, 98, 97>> >>

\* The ranks a multi-byte key may get (0: the key is absent).  Two keys may
\* share a rank: BytePairEncoder.encode takes any Map.
CandRanks == {0, 256, 257}

MergeEntries(choice) ==
  LET all == [i \in 1..Len(CandKeys) |-> << bytesToKey(CandKeys[i]), choice[i] >>]
  IN SelectSeq(all, LAMBDA e : e[2] # 0)

\* The rank tables BytePairEncoder.encode is called with.
BpeTables ==
  { MapSetAll(base, MergeEntries(choice)) :
      base \in {BaseMap, GapMap}, choice \in [1..Len(CandKeys) -> CandRanks] }

RECURSIVE SeqsUpTo(_, _)
SeqsUpTo(S, n) ==
  IF n = 0 THEN {<<>>}
  ELSE LET shorter == SeqsUpTo(S, n - 1)
       IN shorter \cup {Append(s, x) : s \in {t \in shorter : Len(t) = n - 1}, x \in S}

\* The pieces BytePairEncoder.encode is called with: every single byte, and
\* every sequence of 2..MaxPieceLen bytes over 'a' and 'b'.
BpePieces ==
  {<<b>> : b \in Byte} \cup {p \in SeqsUpTo({97, 98}, MaxPieceLen) : Len(p) >= 2}

(* ----------------------- inputs: Encoding ------------------------------ *)

\* The rank of the single byte b in the base vocabulary.
BaseRank(b) == (b + 128) % 256

\* The multi-byte keys of a vocabulary, in rank order from 256: "aa", " a",
\* the two bytes of U+00E9, the pairs and the whole of U+1F600, "<|", and the
\* prefix and the whole of the byte order mark.
VocabMerges ==
  << <<97, 97>>, <<32, 97>>, <<195, 169>>, <<240, 159>>, <<152, 128>>,
     <<240, 159, 152, 128>>, <<60, 124>>, <<239, 187>>, <<239, 187, 191>> >>

VocabEntries == [i \in 1..Len(VocabMerges) |-> << bytesToKey(VocabMerges[i]), 255 + i >>]

\* A complete vocabulary with pairwise distinct ranks.
Vocab == MapSetAll(BaseMap, VocabEntries)

\* The same with one more key, "aaa", at the rank of "aa".
VocabDup == MapSet(Vocab, bytesToKey(<<97, 97, 97>>), 256)

\* The same as Vocab without the single byte 'a'.
VocabGap == MapSetAll(GapMap, VocabEntries)

\* Special tokens: "<|", "|<" (overlaps the first) and "<|<" (the first is a
\* prefix of it).
TokX == <<60, 124>>

TokY == <<124, 60>>

TokZ == <<60, 124, 60>>

\* The specialTokens objects, keys in insertion order; in the last one a
\* special id is also a rank of the vocabulary.
SpecialTokenObjects ==
  { EmptyMap,
    MapOfDistinct(<< <<TokX, 1000>>, <<TokY, 1001>> >>),
    MapOfDistinct(<< <<TokX, 1000>>, <<TokZ, 1001>> >>),
    MapOfDistinct(<< <<TokZ, 1000>>, <<TokX, 256>> >>) }

\* What the constructor is called with.
Constructions ==
  ({"cl100k_base"} \X {Vocab, VocabDup, VocabGap} \X SpecialTokenObjects)
    \cup ({"r50k_base"} \X {Vocab} \X SpecialTokenObjects)
    \cup ({"possessive"} \X {Vocab} \X {EmptyMap})

\* Code units of ordinary text: 'a', space, '1', U+00E9, U+FEFF, and the two
\* surrogates of U+1F600.
OrdinaryUnits == {97, 32, 49, 233, 65279, 55357, 56832}

\* Code units of text with special tokens: '<' and '|'.
SpecialUnits == {60, 124}

OrdinaryTexts == SeqsUpTo(OrdinaryUnits, MaxTextLen)

SpecialTexts == SeqsUpTo(SpecialUnits, MaxSpecialTextLen)

AllowedOptions ==
  {Undefined, All, SetOf({}), SetOf({TokX}), SetOf({TokY}), SetOf({TokX, TokZ})}

DisallowedOptions ==
  {Undefined, All, SetOf({}), SetOf({TokX}), SetOf({TokY})}

\* Token ids that are decoded: ranks of 'a', of the two bytes of U+00E9 and of
\* the first byte of the byte order mark, a merge rank that is also a special
\* id, a special id, and an id of no table.
DecodeIds == {BaseRank(97), BaseRank(195), BaseRank(169), 263, 256, 1000, 9999}

TokenSeqs == SeqsUpTo(DecodeIds, MaxTokens)

ErrorModes == {"replace", "strict", "ignore"}

\* What encodeSingleToken is called with: the strings "<|" (a special token
\* whose bytes are a key), "<|<", "aa", "a", U+00E9, "ab" (no key), "valueOf", a
\* lone surrogate and "", and the byte arrays of "aa", "<|", 0xC3, "ab" and of
\* nothing.
SingleTokenInputs ==
  {StringInput(u) : u \in {TokX, TokZ, <<97, 97>>, <<97>>, <<233>>, <<97, 98>>,
                           <<118, 97, 108, 117, 101, 79, 102>>, <<55357>>, <<>>}}
    \cup {BytesInput(b) : b \in {<<97, 97>>, <<60, 124>>, <<195>>, <<97, 98>>, <<>>}}

(* ------------------------ the loader (tiktoken-loader.js) -------------- *)

(* A .tiktoken text is the sequence of its lines.  A line is an entry (a     *)
(* base64 token and a rank), or one the parser skips: blank, not two parts,  *)
(* a rank that parseInt does not read, a token atob rejects.  A hash is a    *)
(* string, here a sequence; Null stands for null.  An IndexedDB record is    *)
(* {name, data, hash, timestamp}; the timestamp is never read.               *)

Null == <<-1>>

\* if (expectedHash): neither null nor the empty string
Truthy(h) == h # Null /\ h # <<>>

EntryLine(bytes, rank) == [kind |-> "entry", token |-> btoa(bytes), rank |-> rank]

SkippedLine(kind) == [kind |-> kind, token |-> <<>>, rank |-> 0]

\* The texts the network may answer with: the published file, a file with the
\* ranks swapped, and a file with lines the parser skips and a key set twice.
FileTexts ==
  << << EntryLine(<<97>>, 0), EntryLine(<<98>>, 1), SkippedLine("blank") >>,
     << EntryLine(<<97>>, 1), EntryLine(<<98>>, 0) >>,
     << EntryLine(<<97>>, 0), SkippedLine("parts"), SkippedLine("nan"),
        SkippedLine("base64"), EntryLine(<<97, 98>>, 2), EntryLine(<<97>>, 5) >> >>

\* sha256(text): the digest, one for each text (no two texts of the model collide).
Sha256(text) == << CHOOSE i \in 1..Len(FileTexts) : FileTexts[i] = text >>

\* The loop over the lines of loadTiktokenBpe.
RECURSIVE ParseLines(_, _)
ParseLines(lines, ranks) ==
  IF lines = <<>> THEN ranks
  ELSE LET line == Head(lines)
       IN IF line.kind # "entry" THEN ParseLines(Tail(lines), ranks)
          ELSE ParseLines(Tail(lines),
                          MapSet(ranks, bytesToKey(atob(line.token)), line.rank))

\* Array.from(ranks.entries())
Entries(m) == [i \in 1..Len(m.order) |-> << m.order[i], m.get[m.order[i]] >>]

\* The URLs loadTiktokenBpe is called with, split at '/': two hosts with a
\* file of the same name, and another file.
Urls == { <<"a.example", "x.tiktoken">>, <<"b.example", "x.tiktoken">>,
          <<"a.example", "y.tiktoken">> }

\* const cacheName = url.split('/').pop()
CacheName(url) == url[Len(url)]

\* The expectedHash arguments: null, the empty string, the digests of the
\* first two texts, and a digest of no text.
ExpectedHashes == {Null, <<>>, Sha256(FileTexts[1]), Sha256(FileTexts[2]), <<0>>}

\* What awaiting fetch(url) gives: a rejection, a response that is not ok,
\* or a response with one of the texts.
Responses ==
  {[kind |-> "rejected", text |-> <<>>], [kind |-> "not ok", text |-> <<>>]}
    \cup {[kind |-> "ok", text |-> FileTexts[i]] : i \in 1..Len(FileTexts)}

NoResponse == [kind |-> "none", text |-> <<>>]

\* EncodingCache.get, once the request has succeeded: the data of the record
\* of that name if its hash is the expected one, null otherwise.
StoreGet(store, name, expectedHash) ==
  IF MapHas(store, name) /\ MapGet(store, name).hash = expectedHash
    THEN [found |-> TRUE, data |-> MapGet(store, name).data]
    ELSE [found |-> FALSE, data |-> <<>>]

\* A slip in the verification: the hashes are computed and not compared.
VerifyHash_Skipped(text, expectedHash) == "none"

\* The hash verification of loadTiktokenBpe: the error it throws, if any.
VerifyHash(text, expectedHash) ==
  IF Truthy(expectedHash) /\ Sha256(text) # expectedHash
    THEN "Hash mismatch" ELSE "none"

\* A slip in the cache read: no try around it, its failure fails the call.
AfterCacheRead_Rethrows(ld, store, outcome) ==
  IF outcome = "failed"
    THEN [ld EXCEPT !.pc = "done", !.cacheRead = "failed",
                    !.result = Throw("Cache read failed")]
  ELSE LET cached == StoreGet(store, CacheName(ld.url), ld.expectedHash)
       IN IF cached.found
            THEN [ld EXCEPT !.pc = "done", !.cacheRead = "hit",
                            !.result = Return(MapSetAll(EmptyMap, cached.data))]
            ELSE [ld EXCEPT !.pc = "fetch", !.cacheRead = "miss"]

\* The call after the await of encodingCache.get: a hit returns new
\* Map(cached); a miss and a failed read go on to the fetch.
AfterCacheRead(ld, store, outcome) ==
  IF outcome = "failed"
    THEN [ld EXCEPT !.pc = "fetch", !.cacheRead = "failed"]
  ELSE LET cached == StoreGet(store, CacheName(ld.url), ld.expectedHash)
       IN IF cached.found
            THEN [ld EXCEPT !.pc = "done", !.cacheRead = "hit",
                            !.result = Return(MapSetAll(EmptyMap, cached.data))]
            ELSE [ld EXCEPT !.pc = "fetch", !.cacheRead = "miss"]

\* The call from the await of fetch to the cache write: the response is
\* checked, the text verified and parsed.
AfterFetch(ld, response) ==
  LET got == [ld EXCEPT !.response = response]
  IN IF response.kind = "rejected"
       THEN [got EXCEPT !.pc = "done", !.result = Throw("fetch rejected")]
     ELSE IF response.kind = "not ok"
       THEN [got EXCEPT !.pc = "done", !.result = Throw("Failed to fetch")]
     ELSE IF VerifyHash(response.text, ld.expectedHash) # "none"
       THEN [got EXCEPT !.pc = "done",
                        !.result = Throw(VerifyHash(response.text, ld.expectedHash))]
     ELSE LET ranks == ParseLines(response.text, EmptyMap)
          IN IF Truthy(ld.expectedHash)
               THEN [got EXCEPT !.pc = "cache write", !.ranks = ranks]
               ELSE [got EXCEPT !.pc = "done", !.ranks = ranks,
                                !.result = Return(ranks)]

\* The store after the await of encodingCache.set.
StoreAfterWrite(ld, store, outcome) ==
  IF outcome = "failed" THEN store
  ELSE MapSet(store, CacheName(ld.url),
              [data |-> Entries(ld.ranks), hash |-> ld.expectedHash])

(* ------------------------------ state --------------------------------- *)

VARIABLES
  bpePc,        \* where the call of BytePairEncoder.encode is: idle, loop, done
  bpeRanks,     \* its argument ranks
  bpePiece,     \* its argument piece
  parts,        \* _bytePairMerge: the part list
  minRank,      \* _bytePairMerge: the current minimum
  iterations,   \* _bytePairMerge: the iteration counter
  bpeResult,    \* what the call returned or threw
  encPc,        \* the Encoding: unbuilt, failed, ready, done (a call has just ended)
  patStr,       \* the pattern string of this._patRegex
  mergeableRanks,        \* this._mergeableRanks
  specialTokens,         \* this._specialTokens
  decoder,               \* this._decoder
  specialTokensDecoder,  \* this._specialTokensDecoder
  maxTokenValue,         \* this.maxTokenValue
  specialLastIndex,      \* this._specialPattern.lastIndex
  tasks,        \* per task that shares the instance: its last call and outcome
  call,         \* the last call of a method of the instance and its arguments
  result,       \* what it returned or threw
  encodingCache,  \* registry.js: the Map encodingCache, name -> instance
  loads,          \* per name, how many loads of its vocabulary were started
  constructs,     \* per name, how many Encodings were constructed
  returned,       \* per name, the instances getEncoding has resolved with
  callers,        \* per caller of getEncoding: where its call is, and its outcome
  idb,            \* tiktoken-loader.js: the object store 'encodings', name -> record
  loader          \* the call of loadTiktokenBpe: where it is, its locals, its outcome

bpeVars == <<bpePc, bpeRanks, bpePiece, parts, minRank, iterations, bpeResult>>

instanceVars == <<patStr, mergeableRanks, specialTokens, decoder,
                  specialTokensDecoder, maxTokenValue>>

encVars == <<encPc, patStr, mergeableRanks, specialTokens, decoder,
             specialTokensDecoder, maxTokenValue, specialLastIndex, tasks,
             call, result>>

regVars == <<encodingCache, loads, constructs, returned, callers>>

loadVars == <<idb, loader>>

vars == <<bpePc, bpeRanks, bpePiece, parts, minRank, iterations, bpeResult,
          encPc, patStr, mergeableRanks, specialTokens, decoder,
          specialTokensDecoder, maxTokenValue, specialLastIndex, tasks,
          call, result, encodingCache, loads, constructs, returned, callers,
          idb, loader>>

NoResult == [status |-> "none", value |-> <<>>, error |-> "none"]

BpeIdle ==
  /\ bpePc = "idle"
  /\ bpeRanks = EmptyMap
  /\ bpePiece = <<>>
  /\ parts = <<>>
  /\ minRank = NoMin
  /\ iterations = 0
  /\ bpeResult = NoResult

NoCall == [op |-> "none", text |-> <<>>, tokens |-> <<>>,
           allowedSpecial |-> Undefined, disallowedSpecial |-> Undefined,
           errors |-> "replace", input |-> StringInput(<<>>), token |-> 0,
           allowedAfter |-> Undefined, disallowedAfter |-> Undefined]

\* The tasks that share the instance.
Tasks == {"t1", "t2"}

TaskIdle == [pc |-> "idle", call |-> NoCall, result |-> NoResult]

\* No Encoding has been constructed.
Unbuilt ==
  /\ encPc = "unbuilt"
  /\ patStr = "none"
  /\ mergeableRanks = EmptyMap
  /\ specialTokens = EmptyMap
  /\ decoder = EmptyMap
  /\ specialTokensDecoder = EmptyMap
  /\ maxTokenValue = -1
  /\ specialLastIndex = 0
  /\ tasks = [t \in Tasks |-> TaskIdle]
  /\ call = NoCall
  /\ result = NoResult

\* The names getEncoding is called with: two that ENCODING_CONSTRUCTORS has
\* and one that it has not.
RegistryNames == {"cl100k_base", "r50k_base", "no_such_base"}

EncodingNames == {"cl100k_base", "r50k_base"}

\* The callers of getEncoding.
Callers == {"c1", "c2", "c3"}

NoInstance == [name |-> "none", serial |-> 0]

CallerIdle == [pc |-> "idle", name |-> "none", value |-> NoInstance, error |-> "none"]

\* The module registry.js is loaded: the cache is empty.
RegistryLoaded ==
  /\ encodingCache = EmptyMap
  /\ loads = [n \in EncodingNames |-> 0]
  /\ constructs = [n \in EncodingNames |-> 0]
  /\ returned = [n \in EncodingNames |-> {}]
  /\ callers = [c \in Callers |-> CallerIdle]

\* No call of loadTiktokenBpe.
LoaderIdle ==
  [pc |-> "idle", url |-> <<>>, expectedHash |-> Null, cacheRead |-> "none",
   response |-> NoResponse, ranks |-> EmptyMap, cacheWrite |-> "none",
   result |-> NoResult]

\* The loader module is loaded in a browser whose store is empty.
LoaderLoaded ==
  /\ idb = EmptyMap
  /\ loader = LoaderIdle

Init == BpeIdle /\ Unbuilt /\ RegistryLoaded /\ LoaderLoaded

LoopState == [parts |-> parts, minRank |-> minRank, iterations |-> iterations,
              thrown |-> "none"]

\* BytePairEncoder.encode(r, p) is called: the length-1 branch runs to its end;
\* otherwise _bytePairMerge runs up to its while loop.
BpeCallWith(r, p) ==
  /\ bpeRanks' = r
  /\ bpePiece' = p
  /\ IF Len(p) = 1
       THEN /\ bpeResult' = EncodeSingleByte(r, p)
            /\ bpePc' = "done"
            /\ UNCHANGED <<parts, minRank, iterations>>
       ELSE LET st == MergeStart(r, p)
            IN /\ parts' = st.parts
               /\ minRank' = st.minRank
               /\ iterations' = st.iterations
               /\ bpePc' = "loop"
               /\ UNCHANGED bpeResult

BpeCall ==
  /\ bpePc = "idle"
  /\ \E r \in BpeTables, p \in BpePieces : BpeCallWith(r, p)
  /\ UNCHANGED <<encVars, regVars, loadVars>>

\* One iteration of the while loop (its condition holds).
BpeMergeIteration ==
  /\ bpePc = "loop"
  /\ minRank.rank # Infinity
  /\ LET st == MergeIteration(bpeRanks, bpePiece, LoopState)
     IN /\ parts' = st.parts
        /\ minRank' = st.minRank
        /\ iterations' = st.iterations
        /\ IF st.thrown # "none"
             THEN bpePc' = "done" /\ bpeResult' = Throw(st.thrown)
             ELSE UNCHANGED <<bpePc, bpeResult>>
  /\ UNCHANGED <<bpeRanks, bpePiece>>
  /\ UNCHANGED <<encVars, regVars, loadVars>>

\* The while loop ends; encode looks the slices up and returns or throws.
BpeLoopExit ==
  /\ bpePc = "loop"
  /\ minRank.rank = Infinity
  /\ bpeResult' = EncodeFinish(bpeRanks, bpePiece, LoopState)
  /\ bpePc' = "done"
  /\ UNCHANGED <<bpeRanks, bpePiece, parts, minRank, iterations>>
  /\ UNCHANGED <<encVars, regVars, loadVars>>

\* The caller has the outcome; the working arrays are garbage.
BpeReturn ==
  /\ bpePc = "done"
  /\ bpePc' = "idle"
  /\ bpeRanks' = EmptyMap
  /\ bpePiece' = <<>>
  /\ parts' = <<>>
  /\ minRank' = NoMin
  /\ iterations' = 0
  /\ bpeResult' = NoResult
  /\ UNCHANGED <<encVars, regVars, loadVars>>

BpeNext ==
  \/ BpeCall
  \/ BpeMergeIteration
  \/ BpeLoopExit
  \/ BpeReturn

\* The instance as the methods see it.
This == [ patStr               |-> patStr,
          mergeableRanks       |-> mergeableRanks,
          specialTokens        |-> specialTokens,
          decoder              |-> decoder,
          specialTokensDecoder |-> specialTokensDecoder,
          maxTokenValue        |-> maxTokenValue,
          specialLastIndex     |-> specialLastIndex ]

\* new Encoding({patStr, mergeableRanks, specialTokens}): the constructor
\* returns the instance, or it threw.
ConstructWith(p, m, s) ==
  LET r == Construct(p, m, s)
  IN /\ call' = [NoCall EXCEPT !.op = "constructor"]
     /\ IF r.status = "throw"
          THEN /\ encPc' = "failed"
               /\ result' = r
               /\ UNCHANGED <<instanceVars, specialLastIndex>>
          ELSE /\ encPc' = "done"
               /\ result' = Return(<<>>)
               /\ patStr' = r.value.patStr
               /\ mergeableRanks' = r.value.mergeableRanks
               /\ specialTokens' = r.value.specialTokens
               /\ decoder' = r.value.decoder
               /\ specialTokensDecoder' = r.value.specialTokensDecoder
               /\ maxTokenValue' = r.value.maxTokenValue
               /\ specialLastIndex' = r.value.specialLastIndex

ConstructCall ==
  /\ encPc = "unbuilt"
  /\ \E c \in Constructions : ConstructWith(c[1], c[2], c[3])
  /\ UNCHANGED tasks
  /\ UNCHANGED <<bpeVars, regVars, loadVars>>

\* A Set the caller passed to encode, after the call: encode asks has and size
\* of allowedSpecial and iterates disallowedSpecial, and calls nothing else of them.
OptionAfterEncode(option) == option

\* The call record with the caller's Sets as the call leaves them.
CallAfter(c) ==
  IF c.op = "encode"
    THEN [c EXCEPT !.allowedAfter = OptionAfterEncode(c.allowedSpecial),
                   !.disallowedAfter = OptionAfterEncode(c.disallowedSpecial)]
    ELSE c

\* The method call c returns or throws.
RunCall(enc, c) ==
  CASE c.op = "encodeOrdinary" -> encodeOrdinary(enc, c.text)
    [] c.op = "encode" -> encode(enc, c.text, c.allowedSpecial, c.disallowedSpecial)
    [] c.op = "decodeBytes" -> decodeBytes(enc, c.tokens)
    [] c.op = "decode" -> decode(enc, c.tokens, c.errors)
    [] c.op = "encodeSingleToken" -> encodeSingleToken(enc, c.input)
    [] c.op = "decodeSingleTokenBytes" -> decodeSingleTokenBytes(enc, c.token)
    [] c.op = "decodeTokensBytes" -> decodeTokensBytes(enc, c.tokens)

\* A slip: every encode leaves the lastIndex of the pattern behind its text.
LastIndexAfterCall_TextEnd(enc, c) ==
  IF c.op = "encode" THEN Len(c.text) ELSE enc.specialLastIndex

\* this._specialPattern.lastIndex after the method call c.
LastIndexAfterCall(enc, c) ==
  IF c.op = "encode" /\ ScansSpecial(enc, c.text, c.allowedSpecial, c.disallowedSpecial)
    THEN SpecialLastIndexAfter(enc, c.text)
    ELSE enc.specialLastIndex

\* A slip: decodeBytes and decode keep the bytes they made in the decoder.
MethodRan_KeepsBytes(c, r) ==
  /\ call' = CallAfter(c)
  /\ result' = r
  /\ encPc' = "done"
  /\ specialLastIndex' = LastIndexAfterCall(This, c)
  /\ decoder' = IF c.op \in {"decodeBytes", "decode"}
                  THEN MapSet(decoder, -1, decodeBytes(This, c.tokens).value)
                  ELSE decoder
  /\ UNCHANGED <<patStr, mergeableRanks, specialTokens, specialTokensDecoder,
                 maxTokenValue>>
  /\ UNCHANGED tasks
  /\ UNCHANGED <<bpeVars, regVars, loadVars>>

\* A method ran to its return or throw; it assigns no field of the instance.
MethodRan(c, r) ==
  /\ call' = CallAfter(c)
  /\ result' = r
  /\ encPc' = "done"
  /\ specialLastIndex' = LastIndexAfterCall(This, c)
  /\ UNCHANGED instanceVars
  /\ UNCHANGED tasks
  /\ UNCHANGED <<bpeVars, regVars, loadVars>>

EncodeOrdinaryCall ==
  /\ encPc = "ready"
  /\ \E text \in OrdinaryTexts \cup SpecialTexts :
       MethodRan([NoCall EXCEPT !.op = "encodeOrdinary", !.text = text],
                 encodeOrdinary(This, text))

EncodeCall ==
  /\ encPc = "ready"
  /\ \E text \in SpecialTexts, a \in AllowedOptions, d \in DisallowedOptions :
       MethodRan([NoCall EXCEPT !.op = "encode", !.text = text,
                                !.allowedSpecial = a, !.disallowedSpecial = d],
                 encode(This, text, a, d))

DecodeBytesCall ==
  /\ encPc = "ready"
  /\ \E tokens \in TokenSeqs :
       MethodRan([NoCall EXCEPT !.op = "decodeBytes", !.tokens = tokens],
                 decodeBytes(This, tokens))

DecodeCall ==
  /\ encPc = "ready"
  /\ \E tokens \in TokenSeqs, errors \in ErrorModes :
       MethodRan([NoCall EXCEPT !.op = "decode", !.tokens = tokens,
                                !.errors = errors],
                 decode(This, tokens, errors))

EncodeSingleTokenCall ==
  /\ encPc = "ready"
  /\ \E input \in SingleTokenInputs :
       MethodRan([NoCall EXCEPT !.op = "encodeSingleToken", !.input = input],
                 encodeSingleToken(This, input))

DecodeSingleTokenBytesCall ==
  /\ encPc = "ready"
  /\ \E token \in DecodeIds :
       MethodRan([NoCall EXCEPT !.op = "decodeSingleTokenBytes", !.token = token],
                 decodeSingleTokenBytes(This, token))

DecodeTokensBytesCall ==
  /\ encPc = "ready"
  /\ \E tokens \in TokenSeqs :
       MethodRan([NoCall EXCEPT !.op = "decodeTokensBytes", !.tokens = tokens],
                 decodeTokensBytes(This, tokens))

\* The caller has the outcome; the instance is ready for the next call.
MethodReturn ==
  /\ encPc = "done"
  /\ encPc' = "ready"
  /\ call' = NoCall
  /\ result' = NoResult
  /\ UNCHANGED <<instanceVars, specialLastIndex, tasks>>
  /\ UNCHANGED <<bpeVars, regVars, loadVars>>

\* The calls the tasks make: encode of texts with special tokens under three
\* settings of the options, encodeOrdinary, decodeBytes and decode.
TaskCalls ==
  {[NoCall EXCEPT !.op = "encode", !.text = text,
                  !.allowedSpecial = o[1], !.disallowedSpecial = o[2]] :
     text \in {TokX, TokX \o TokX, <<124>> \o TokX},
     o \in {<<All, Undefined>>, <<Undefined, Undefined>>, <<SetOf({TokY}), SetOf({})>>}}
  \cup {[NoCall EXCEPT !.op = "encodeOrdinary", !.text = text] :
           text \in {TokX, <<97>>, <<97, 97>>}}
  \cup {[NoCall EXCEPT !.op = "decodeBytes", !.tokens = tokens] :
           tokens \in {<<256, 1000>>, <<9999>>}}
  \cup {[NoCall EXCEPT !.op = "decode", !.tokens = tokens, !.errors = errors] :
           tokens \in {<<256>>, <<BaseRank(195)>>}, errors \in {"replace", "strict"}}

\* The task t calls a method of the shared instance.  The methods are
\* synchronous: the call runs to its return or throw before any other task runs.
TaskCall(t) ==
  /\ encPc = "ready"
  /\ tasks[t].pc = "idle"
  /\ \E c \in TaskCalls :
       /\ tasks' = [tasks EXCEPT ![t] = [pc |-> "done", call |-> CallAfter(c),
                                         result |-> RunCall(This, c)]]
       /\ specialLastIndex' = LastIndexAfterCall(This, c)
  /\ UNCHANGED <<encPc, instanceVars, call, result>>
  /\ UNCHANGED <<bpeVars, regVars, loadVars>>

\* The task t has its outcome and may call again.
TaskReturn(t) ==
  /\ tasks[t].pc = "done"
  /\ tasks' = [tasks EXCEPT ![t] = TaskIdle]
  /\ UNCHANGED <<encPc, instanceVars, specialLastIndex, call, result>>
  /\ UNCHANGED <<bpeVars, regVars, loadVars>>

TaskNext ==
  \/ ConstructCall
  \/ MethodReturn
  \/ \E t \in Tasks : TaskCall(t)
  \/ \E t \in Tasks : TaskReturn(t)

\* getEncoding(name) is called and runs up to its first await: it resolves
\* with the cached instance, rejects an unknown name, or starts the load.
GetEncodingCall(c, name) ==
  /\ callers[c].pc = "idle"
  /\ IF MapHas(encodingCache, name)
       THEN /\ callers' = [callers EXCEPT ![c] =
                             [pc |-> "resolved", name |-> name,
                              value |-> MapGet(encodingCache, name), error |-> "none"]]
            /\ returned' = [returned EXCEPT ![name] = @ \cup {MapGet(encodingCache, name)}]
            /\ UNCHANGED loads
     ELSE IF name \notin EncodingNames
       THEN /\ callers' = [callers EXCEPT ![c] =
                             [pc |-> "rejected", name |-> name,
                              value |-> NoInstance, error |-> "Unknown encoding"]]
            /\ UNCHANGED <<loads, returned>>
     ELSE /\ loads[name] < MaxLoads
          /\ callers' = [callers EXCEPT ![c] =
                           [pc |-> "loading", name |-> name,
                            value |-> NoInstance, error |-> "none"]]
          /\ loads' = [loads EXCEPT ![name] = @ + 1]
          /\ UNCHANGED returned
  /\ UNCHANGED <<encodingCache, constructs>>
  /\ UNCHANGED <<bpeVars, encVars, loadVars>>

\* The model names encodingForModel is called with, and MODEL_TO_ENCODING
\* ("none": the model has no entry).
ModelNames == {"gpt-4", "davinci", "no-such-model"}

ModelToEncoding(model) ==
  CASE model = "gpt-4"   -> "cl100k_base"
    [] model = "davinci" -> "r50k_base"
    [] OTHER             -> "none"

\* encodingForModel(model): rejects a model without an entry, and is the
\* getEncoding call of the entry otherwise.
EncodingForModelCall(c, model) ==
  IF ModelToEncoding(model) = "none"
    THEN /\ callers[c].pc = "idle"
         /\ callers' = [callers EXCEPT ![c] =
                          [pc |-> "rejected", name |-> model,
                           value |-> NoInstance, error |-> "No encoding found for model"]]
         /\ UNCHANGED <<encodingCache, loads, constructs, returned>>
         /\ UNCHANGED <<bpeVars, encVars, loadVars>>
    ELSE GetEncodingCall(c, ModelToEncoding(model))

\* What awaiting loadTiktokenBpe and constructing the Encoding can end with.
LoadOutcomes == {"ok", "fetch failed", "hash mismatch", "Invalid regex pattern"}

\* A slip in getEncoding: the cache entry is written before the load, so a
\* failed call leaves an entry without an Encoding behind.
LoadSettles_CachesFailure(c, outcome) ==
  /\ callers[c].pc = "loading"
  /\ LET name     == callers[c].name
         encoding == [name |-> name, serial |-> constructs[name] + 1]
     IN IF outcome = "ok"
          THEN /\ constructs' = [constructs EXCEPT ![name] = @ + 1]
               /\ encodingCache' = MapSet(encodingCache, name, encoding)
               /\ returned' = [returned EXCEPT ![name] = @ \cup {encoding}]
               /\ callers' = [callers EXCEPT ![c] =
                                [pc |-> "resolved", name |-> name,
                                 value |-> encoding, error |-> "none"]]
          ELSE /\ callers' = [callers EXCEPT ![c] =
                                [pc |-> "rejected", name |-> name,
                                 value |-> NoInstance, error |-> outcome]]
               /\ encodingCache' = MapSet(encodingCache, name, NoInstance)
               /\ UNCHANGED <<constructs, returned>>
  /\ UNCHANGED loads
  /\ UNCHANGED <<bpeVars, encVars, loadVars>>

\* The await of loadTiktokenBpe of the caller c settles.  After a load the
\* Encoding is constructed, cached under the name and returned; a failed load
\* or a throwing constructor is rethrown.
LoadSettles(c, outcome) ==
  /\ callers[c].pc = "loading"
  /\ LET name     == callers[c].name
         encoding == [name |-> name, serial |-> constructs[name] + 1]
     IN IF outcome = "ok"
          THEN /\ constructs' = [constructs EXCEPT ![name] = @ + 1]
               /\ encodingCache' = MapSet(encodingCache, name, encoding)
               /\ returned' = [returned EXCEPT ![name] = @ \cup {encoding}]
               /\ callers' = [callers EXCEPT ![c] =
                                [pc |-> "resolved", name |-> name,
                                 value |-> encoding, error |-> "none"]]
          ELSE /\ callers' = [callers EXCEPT ![c] =
                                [pc |-> "rejected", name |-> name,
                                 value |-> NoInstance, error |-> outcome]]
               /\ UNCHANGED <<encodingCache, constructs, returned>>
  /\ UNCHANGED loads
  /\ UNCHANGED <<bpeVars, encVars, loadVars>>

\* The caller has the Encoding or the error and may call again.
CallerContinues(c) ==
  /\ callers[c].pc \in {"resolved", "rejected"}
  /\ callers' = [callers EXCEPT ![c] = CallerIdle]
  /\ UNCHANGED <<encodingCache, loads, constructs, returned>>
  /\ UNCHANGED <<bpeVars, encVars, loadVars>>

RegNext ==
  \/ \E c \in Callers, name \in RegistryNames : GetEncodingCall(c, name)
  \/ \E c \in Callers, model \in ModelNames : EncodingForModelCall(c, model)
  \/ \E c \in Callers, outcome \in LoadOutcomes : LoadSettles(c, outcome)
  \/ \E c \in Callers : CallerContinues(c)

\* loadTiktokenBpe(url, expectedHash) is called and runs up to its first await.
LoadTiktokenBpeCall ==
  /\ loader.pc = "idle"
  /\ \E url \in Urls, expectedHash \in ExpectedHashes :
       loader' = [LoaderIdle EXCEPT
                    !.pc = IF Truthy(expectedHash) THEN "cache read" ELSE "fetch",
                    !.url = url, !.expectedHash = expectedHash]
  /\ UNCHANGED idb
  /\ UNCHANGED <<bpeVars, encVars, regVars>>

\* The await of encodingCache.get settles: with the record, or with an error.
CacheReadSettles ==
  /\ loader.pc = "cache read"
  /\ \E outcome \in {"ok", "failed"} : loader' = AfterCacheRead(loader, idb, outcome)
  /\ UNCHANGED idb
  /\ UNCHANGED <<bpeVars, encVars, regVars>>

\* The await of fetch settles; the call runs on to the cache write or its end.
FetchSettles ==
  /\ loader.pc = "fetch"
  /\ \E response \in Responses : loader' = AfterFetch(loader, response)
  /\ UNCHANGED idb
  /\ UNCHANGED <<bpeVars, encVars, regVars>>

\* The await of encodingCache.set settles, with the record put or with an
\* error that is only logged; the call returns the ranks.
CacheWriteSettles ==
  /\ loader.pc = "cache write"
  /\ \E outcome \in {"ok", "failed"} :
       /\ idb' = StoreAfterWrite(loader, idb, outcome)
       /\ loader' = [loader EXCEPT !.pc = "done", !.cacheWrite = outcome,
                                   !.result = Return(loader.ranks)]
  /\ UNCHANGED <<bpeVars, encVars, regVars>>

\* The caller has the ranks or the error.
LoadReturns ==
  /\ loader.pc = "done"
  /\ loader' = LoaderIdle
  /\ UNCHANGED idb
  /\ UNCHANGED <<bpeVars, encVars, regVars>>

LoaderNext ==
  \/ LoadTiktokenBpeCall
  \/ CacheReadSettles
  \/ FetchSettles
  \/ CacheWriteSettles
  \/ LoadReturns

EncNext ==
  \/ ConstructCall
  \/ EncodeOrdinaryCall
  \/ EncodeCall
  \/ DecodeBytesCall
  \/ DecodeCall
  \/ EncodeSingleTokenCall
  \/ DecodeSingleTokenBytesCall
  \/ DecodeTokensBytesCall
  \/ MethodReturn

Next == BpeNext \/ EncNext \/ TaskNext \/ RegNext \/ LoaderNext

\* BytePairEncoder.encode called directly, one call after another.
BpeSpec == Init /\ [][BpeNext]_vars

\* One Encoding is constructed and its methods are called one after another.
EncSpec == Init /\ [][EncNext]_vars

\* One Encoding is constructed and shared by tasks that call its methods.
TaskSpec == Init /\ [][TaskNext]_vars

\* getEncoding is called by several callers, whose loads overlap.
RegSpec == Init /\ [][RegNext]_vars

\* loadTiktokenBpe is called again and again, with the store it has filled.
LoaderSpec == Init /\ [][LoaderNext]_vars

Spec == Init /\ [][Next]_vars

(* ------------------ claims about BytePairEncoder ---------------------- *)

SingleByteKeys == {bytesToKey(<<b>>) : b \in Byte}

\* The rank table holds all 256 single-byte keys.
HasAllBytes(ranks) == SingleByteKeys \subseteq DOMAIN ranks.get

\* The reference procedure of C2, on a sequence of segments (byte sequences).
RefPairRank(ranks, segs, i) == RankOrInfinity(ranks, segs[i] \o segs[i + 1])

\* The leftmost adjacent pair of lowest rank whose concatenation is a key; 0 if none.
RefBest(ranks, segs) ==
  LET cands == {i \in 1..(Len(segs) - 1) : RefPairRank(ranks, segs, i) # Infinity}
  IN IF cands = {} THEN 0
     ELSE CHOOSE i \in cands :
            \A j \in cands :
              \/ RefPairRank(ranks, segs, i) < RefPairRank(ranks, segs, j)
              \/ RefPairRank(ranks, segs, i) = RefPairRank(ranks, segs, j) /\ i <= j

RECURSIVE RefMerge(_, _)
RefMerge(ranks, segs) ==
  LET i == RefBest(ranks, segs)
  IN IF i = 0 THEN segs
     ELSE RefMerge(ranks, SubSeq(segs, 1, i - 1) \o <<segs[i] \o segs[i + 1]>>
                            \o SubSeq(segs, i + 2, Len(segs)))

RefTokens(ranks, piece) ==
  LET segs == RefMerge(ranks, [i \in 1..Len(piece) |-> <<piece[i]>>])
  IN [i \in 1..Len(segs) |-> MapGet(ranks, bytesToKey(segs[i]))]

\* C2: for a piece of length >= 2 and a rank table with all single bytes,
\* BytePairEncoder.encode returns the token sequence of the reference
\* procedure: one segment per byte, merge the adjacent pair whose concatenation
\* has the lowest rank (leftmost on ties) until no pair is a key, then map each
\* segment to its rank.
C2_EncodeIsReferenceBpe ==
  (bpePc = "done" /\ Len(bpePiece) >= 2 /\ HasAllBytes(bpeRanks))
    => bpeResult = Return(RefTokens(bpeRanks, bpePiece))

\* A call decided by the tie rule: in 'aaab' the keys aa and ab have the same
\* rank, and the leftmost pair was merged first (aa, then ab: two tokens).
C2_Witness ==
  /\ bpePc = "done"
  /\ bpePiece = <<97, 97, 97, 98>>
  /\ HasAllBytes(bpeRanks)
  /\ RankOrInfinity(bpeRanks, <<97, 97>>) = RankOrInfinity(bpeRanks, <<97, 98>>)
  /\ iterations = 2
  /\ bpeResult = Return(<<MapGet(bpeRanks, bytesToKey(<<97, 97>>)),
                          MapGet(bpeRanks, bytesToKey(<<97, 98>>))>>)

\* C5: with all 256 single-byte keys in the table, encode(ranks, [b]) returns
\* exactly one token, the rank of the key whose bytes are [b], for every byte
\* b; when no key has the bytes [b], the call throws and returns nothing.
C5_SingleByteCoverage ==
  (bpePc = "done" /\ Len(bpePiece) = 1)
    => LET key == bytesToKey(bpePiece)
       IN /\ keyToBytes(key) = bpePiece
          /\ ~MapHas(bpeRanks, key) => ~HasAllBytes(bpeRanks)
          /\ MapHas(bpeRanks, key) => bpeResult = Return(<<MapGet(bpeRanks, key)>>)
          /\ ~MapHas(bpeRanks, key)
               => bpeResult.status = "throw" /\ bpeResult.value = <<>>

\* The byte 255 was encoded with a complete table.
C5_Witness ==
  /\ bpePc = "done"
  /\ bpePiece = <<255>>
  /\ HasAllBytes(bpeRanks)
  /\ bpeResult = Return(<<127>>)

\* C6: a successful encode of a piece of length n >= 1 returns between 1 and
\* n tokens.
C6_MergeMonotonicity ==
  (bpePc = "done" /\ bpeResult.status = "ok")
    => (1 <= Len(bpeResult.value) /\ Len(bpeResult.value) <= Len(bpePiece))

\* A piece of 4 bytes was merged into 2 tokens.
C6_Witness ==
  /\ bpePc = "done"
  /\ bpeResult.status = "ok"
  /\ Len(bpePiece) = 4
  /\ Len(bpeResult.value) = 2

PartsSlice(i) == Slice(bpePiece, parts[i].pos, parts[i + 1].pos)

\* C7: with all 256 single-byte keys in the table, every byte slice between
\* two consecutive boundaries of the part list is a key of the table, after
\* initialization and after every merge iteration, and the slice lookup of a
\* piece of length >= 2 never throws 'sequence not in vocabulary'.
C7_SlicesAreKeys ==
  (bpePc \in {"loop", "done"} /\ Len(bpePiece) >= 2 /\ HasAllBytes(bpeRanks))
    => /\ \A i \in 1..(Len(parts) - 1) : MapHas(bpeRanks, bytesToKey(PartsSlice(i)))
       /\ bpeResult.error # "sequence not in vocabulary"

\* Two merges were made and a slice of three bytes is a segment.
C7_Witness ==
  /\ bpePc = "loop"
  /\ HasAllBytes(bpeRanks)
  /\ iterations = 2
  /\ \E i \in 1..(Len(parts) - 1) : Len(PartsSlice(i)) = 3

\* C8: for every piece of length n >= 2 and every rank table, each merge
\* iteration shortens the part list by one (so the loop ends after at most
\* n - 1 iterations), the iteration count never exceeds 2 * n and the
\* iteration-cap error is never thrown.
C8_MergeLoopBounded ==
  (bpePc \in {"loop", "done"} /\ Len(bpePiece) >= 2)
    => /\ iterations <= MaxIterations(bpePiece)
       /\ Len(parts) >= 2
       /\ iterations + Len(parts) = Len(bpePiece) + 1
       /\ bpeResult.error # "infinite loop"

\* The longest loop: a piece of 4 bytes merged into one segment by 3 iterations.
C8_Witness ==
  /\ bpePc = "done"
  /\ Len(bpePiece) = 4
  /\ iterations = 3
  /\ Len(parts) = 2

\* The 0-based indices of the part list whose rank is finite.
FiniteIndices(ps) == {j \in 0..(Len(ps) - 1) : At(ps, j).rank # Infinity}

\* The lowest finite rank of the part list.
LowestRank(ps) ==
  CHOOSE r \in {At(ps, j).rank : j \in FiniteIndices(ps)} :
    \A j \in FiniteIndices(ps) : r <= At(ps, j).rank

\* C21: at initialization and after every merge, the index chosen for the
\* next merge is the smallest index whose rank is the lowest finite rank of
\* the part list (of two boundaries with that rank the left one is merged
\* first), and the loop stops exactly when no entry has a finite rank.
C21_TieBreak ==
  /\ (bpePc = "loop" /\ FiniteIndices(parts) = {}) => minRank = NoMin
  /\ (bpePc = "loop" /\ FiniteIndices(parts) # {})
       => /\ minRank.rank = LowestRank(parts)
          /\ minRank.index \in FiniteIndices(parts)
          /\ At(parts, minRank.index).rank = LowestRank(parts)
          /\ \A j \in FiniteIndices(parts) :
               At(parts, j).rank = LowestRank(parts) => minRank.index <= j
  /\ (bpePc = "done" /\ Len(bpePiece) >= 2) => FiniteIndices(parts) = {}

\* After a merge two boundaries carry the lowest rank, and the left one is chosen.
C21_Witness ==
  /\ bpePc = "loop"
  /\ iterations >= 1
  /\ \E j1, j2 \in FiniteIndices(parts) :
       /\ j1 < j2
       /\ At(parts, j1).rank = LowestRank(parts)
       /\ At(parts, j2).rank = LowestRank(parts)
       /\ minRank.index = j1

\* The rank the part list must hold at index j: the rank of the bytes from
\* boundary j to boundary j + 2, Infinity for the last two entries.
SpanRank(ranks, piece, ps, j) ==
  IF j + 2 < Len(ps)
    THEN RankOrInfinity(ranks, Slice(piece, At(ps, j).pos, At(ps, j + 2).pos))
    ELSE Infinity

RanksConsistent(ranks, piece, ps) ==
  \A j \in 0..(Len(ps) - 1) : At(ps, j).rank = SpanRank(ranks, piece, ps, j)

\* A step of the merge loop that merges (the iteration cap is not hit).
MergeStep == bpePc = "loop" /\ bpePc' = "loop" /\ iterations' = iterations + 1

\* The entry of the part list before the merge at index i that the entry j
\* of the list after the merge comes from.
Before(i, j) == IF j <= i THEN j ELSE j + 1

\* C22: after initialization and after every merge iteration every entry j
\* with j + 2 < length holds the rank of the bytes from parts[j].pos to
\* parts[j+2].pos (Infinity when they are no key) and the last two entries
\* hold Infinity; a merge at index i recomputes only the ranks at i-1 and i,
\* each over the span to the boundary three entries ahead before the removal,
\* and removes only the entry i+1.
C22_RankConsistency ==
  [][ /\ (bpePc' = "loop" /\ Len(bpePiece') >= 2) => RanksConsistent(bpeRanks', bpePiece', parts')
      /\ MergeStep =>
           LET i == minRank.index
               n == Len(parts)
           IN /\ Len(parts') = n - 1
              /\ \A j \in 0..(n - 2) :
                   At(parts', j).pos = At(parts, Before(i, j)).pos
              /\ \A j \in (0..(n - 2)) \ {i - 1, i} :
                   At(parts', j).rank = At(parts, Before(i, j)).rank
              /\ i > 0 =>
                   At(parts', i - 1).rank =
                     RankOrInfinity(bpeRanks,
                       Slice(bpePiece, At(parts, i - 1).pos, At(parts, i + 2).pos))
              /\ At(parts', i).rank =
                   IF i + 3 < n
                     THEN RankOrInfinity(bpeRanks,
                            Slice(bpePiece, At(parts, i).pos, At(parts, i + 3).pos))
                     ELSE Infinity
    ]_vars

\* After a merge an entry holds the finite rank of a span of three bytes.
C22_Witness ==
  /\ bpePc = "loop"
  /\ iterations >= 1
  /\ \E j \in FiniteIndices(parts) :
       /\ j + 2 < Len(parts)
       /\ At(parts, j + 2).pos - At(parts, j).pos = 3

\* The shape of the part list of a piece of n bytes.
PartsShape(ps, n) ==
  /\ 2 <= Len(ps) /\ Len(ps) <= n + 1
  /\ At(ps, 0).pos = 0
  /\ At(ps, Len(ps) - 1).pos = n
  /\ \A j \in 0..(Len(ps) - 2) : At(ps, j).pos < At(ps, j + 1).pos
  /\ \A j \in FiniteIndices(ps) : j + 2 < Len(ps)

\* C26: for a piece of n >= 2 bytes, in every state of the merge loop the
\* boundary positions increase strictly from 0 to n, the list has between 2
\* and n+1 entries and every entry of finite rank has at least two entries
\* after it (the entry removed at i+1 exists and is not the last one); each
\* iteration shortens the list by exactly one.
C26_PartListShape ==
  [][ /\ (bpePc' = "loop" /\ Len(bpePiece') >= 2) => PartsShape(parts', Len(bpePiece'))
      /\ MergeStep =>
           /\ 1 <= minRank.index + 1
           /\ minRank.index + 1 < Len(parts) - 1
           /\ Len(parts') = Len(parts) - 1
    ]_vars

\* Two merges in a piece of 4 bytes left three boundaries, the first of
\* finite rank: the third merge is to follow.
C26_Witness ==
  /\ bpePc = "loop"
  /\ Len(bpePiece) = 4
  /\ iterations = 2
  /\ Len(parts) = 3
  /\ At(parts, 0).rank # Infinity

\* What the loop of encodeOrdinary returns for the piece of the current call
\* of BytePairEncoder.encode as its only match.  The bytes of the piece are
\* ASCII, so the matched text has the piece's bytes as its code points.
FastPathOutcome == EncodePieces(bpeRanks, <<bpePiece>>, <<>>)

\* BytePairEncoder.encode has run on a piece that is a key of a table with
\* all single bytes: the case of the whole-piece fast path.
WholePieceIsKey ==
  /\ bpePc = "done"
  /\ HasAllBytes(bpeRanks)
  /\ MapHas(bpeRanks, bytesToKey(bpePiece))
  /\ \A i \in 1..Len(bpePiece) : bpePiece[i] < 128

\* C25 as stated: for every rank table with all single bytes and every piece
\* that is a key of the table, the token of the fast path of encodeOrdinary is
\* the token sequence BytePairEncoder.encode returns for the piece.
C25_FastPathIsBpe == WholePieceIsKey => bpeResult = FastPathOutcome

\* C25, amended: the fast path emits one token, the rank of the piece;
\* BytePairEncoder.encode succeeds, and returns that same sequence exactly
\* when the merges join the piece into one segment, which is always so for a
\* piece of one or two bytes.
C25_FastPathIsBpeWhenMerged ==
  WholePieceIsKey
    => /\ FastPathOutcome = Return(<<MapGet(bpeRanks, bytesToKey(bpePiece))>>)
       /\ bpeResult.status = "ok"
       /\ Len(bpePiece) <= 2 => bpeResult = FastPathOutcome
       /\ bpeResult = FastPathOutcome
            <=> Len(RefMerge(bpeRanks, [i \in 1..Len(bpePiece) |-> <<bpePiece[i]>>])) = 1

\* A key of four bytes was joined by three merges into one segment: the
\* token is that of the fast path.
C25_Witness ==
  /\ WholePieceIsKey
  /\ Len(bpePiece) = 4
  /\ iterations = 3
  /\ bpeResult = FastPathOutcome

(* ------------------------ claims about Encoding ----------------------- *)

\* No code unit of the text is a lone surrogate.
WellFormed(text) ==
  \A i \in 1..Len(text) :
    /\ IsHighSurrogate(text[i]) => (i < Len(text) /\ IsLowSurrogate(text[i + 1]))
    /\ IsLowSurrogate(text[i]) => (i > 1 /\ IsHighSurrogate(text[i - 1]))

\* No two keys of the rank table have the same rank.
DistinctRanks(ranks) == Cardinality(MapValues(ranks)) = MapSize(ranks)

\* A method of the instance has just returned or thrown.
Ran(op) == encPc = "done" /\ call.op = op

\* C1: for every text without lone surrogates, under a rank table with all 256
\* single-byte keys and pairwise distinct ranks, encodeOrdinary succeeds,
\* decodeBytes of its tokens is the UTF-8 encoding of the text, and decode of
\* its tokens is the text itself, in every error mode.
C1_RoundTrip ==
  (/\ Ran("encodeOrdinary")
   /\ WellFormed(call.text)
   /\ HasAllBytes(mergeableRanks)
   /\ DistinctRanks(mergeableRanks))
    => /\ result.status = "ok"
       /\ decodeBytes(This, result.value) = Return(TextEncode(call.text))
       /\ \A errors \in ErrorModes :
            decode(This, result.value, errors) = Return(call.text)

\* A text of U+FEFF and U+1F600: one merged token for each, and the byte order
\* mark is still in the decoded text.
C1_Witness ==
  /\ Ran("encodeOrdinary")
  /\ call.text = <<65279, 55357, 56832>>
  /\ DistinctRanks(mergeableRanks)
  /\ result = Return(<<264, 261>>)
  /\ decode(This, result.value, "replace") = Return(call.text)

\* The string t is a substring of text.
IsSubstring(t, text) ==
  \E i \in 1..(Len(text) - Len(t) + 1) : SubSeq(text, i, i + Len(t) - 1) = t

\* The registered special tokens.
Registered == DOMAIN specialTokens.get

\* The effective disallowed set of the call, as C3 gives it.
EffectiveDisallowed ==
  IF call.disallowedSpecial.kind = "set" THEN call.disallowedSpecial.set
  ELSE IF call.allowedSpecial.kind = "all" THEN {}
  ELSE Registered \ call.allowedSpecial.set

\* C3: encode on a non-empty text throws the disallowed-special-token error
\* exactly when a string of the effective disallowed set is a substring of the
\* text, and the throwing call yields no tokens.
C3_DisallowedSpecial ==
  (Ran("encode") /\ call.text # <<>>)
    => /\ (result.error = "disallowed special token")
            <=> (\E t \in EffectiveDisallowed : IsSubstring(t, call.text))
       /\ (result.error = "disallowed special token")
            => (result.status = "throw" /\ result.value = <<>>)

\* "|<|" holds the allowed "|<" and the registered, not allowed "<|": the
\* call throws.
C3_Witness ==
  /\ Ran("encode")
  /\ call.text = <<124, 60, 124>>
  /\ call.allowedSpecial = SetOf({TokY})
  /\ call.disallowedSpecial = Undefined
  /\ Registered = {TokX, TokY}
  /\ result = Throw("disallowed special token")

\* The registered special tokens that occur in text at the 0-based index p.
OccurringAt(text, p) ==
  {t \in Registered : p + Len(t) <= Len(text) /\ SubSeq(text, p + 1, p + Len(t)) = t}

\* The outcomes of the scan of C4 from the consumed position from: at the
\* leftmost index where a registered special token occurs, the text before it
\* is encoded as ordinary text, one token occurring there gives its id, and the
\* scan goes on behind it; without an occurrence the rest is ordinary text.  A
\* throw of encodeOrdinary ends the scan.
RECURSIVE RefScan(_, _)
RefScan(text, from) ==
  LET at == {p \in from..(Len(text) - 1) : OccurringAt(text, p) # {}}
  IN IF at = {} THEN {encodeOrdinary(This, SubSeq(text, from + 1, Len(text)))}
     ELSE LET p      == CHOOSE q \in at : \A r \in at : q <= r
              before == encodeOrdinary(This, SubSeq(text, from + 1, p))
          IN IF before.status = "throw" THEN {before}
             ELSE UNION { { IF rest.status = "throw" THEN rest
                            ELSE Return((before.value \o <<specialTokens.get[t]>>)
                                          \o rest.value)
                            : rest \in RefScan(text, p + Len(t)) }
                          : t \in OccurringAt(text, p) }

\* C4: when allowedSpecial is 'all' or holds every registered special token
\* that occurs in the text, and the call does not end with the
\* disallowed-special-token error, encode gives an outcome of the left-to-right
\* scan for non-overlapping occurrences of registered special tokens.
C4_SpecialScan ==
  (/\ Ran("encode")
   /\ result.error # "disallowed special token"
   /\ \/ call.allowedSpecial.kind = "all"
      \/ \A t \in Registered :
           IsSubstring(t, call.text) => t \in call.allowedSpecial.set)
    => result \in RefScan(call.text, 0)

\* "<<|<" with "<|" and "|<" registered: '<', the id of "<|", '<'.
C4_Witness ==
  /\ Ran("encode")
  /\ call.text = <<60, 60, 124, 60>>
  /\ call.allowedSpecial = All
  /\ Registered = {TokX, TokY}
  /\ result = Return(<<BaseRank(60), 1000, BaseRank(60)>>)

\* The bytes C9 gives an id: of the ordinary decode table when the id is there,
\* of the special-token decode table otherwise.
IdKnown(id) == id \in DOMAIN decoder.get \cup DOMAIN specialTokensDecoder.get

IdBytes(id) ==
  IF id \in DOMAIN decoder.get THEN decoder.get[id] ELSE specialTokensDecoder.get[id]

RECURSIVE SumLen(_)
SumLen(ss) == IF ss = <<>> THEN 0 ELSE Len(Head(ss)) + SumLen(Tail(ss))

\* C9: decodeBytes returns the concatenation, in order, of the bytes of each
\* id, its length the sum of their lengths; with an id of neither table at any
\* position it throws and yields no bytes.
C9_DecodeBytes ==
  Ran("decodeBytes")
    => LET each == [i \in 1..Len(call.tokens) |-> IdBytes(call.tokens[i])]
       IN IF \A i \in 1..Len(call.tokens) : IdKnown(call.tokens[i])
            THEN /\ result.status = "ok"
                 /\ result.value = Flatten(each)
                 /\ Len(result.value) = SumLen(each)
            ELSE /\ result.status = "throw"
                 /\ result.value = <<>>

\* The id 256 is the rank of "aa" and the id of the special token "<|": the
\* bytes are those of "aa", followed by those of the special token "<|<".
C9_Witness ==
  /\ Ran("decodeBytes")
  /\ call.tokens = <<256, 1000>>
  /\ MapHas(decoder, 256) /\ MapHas(specialTokensDecoder, 256)
  /\ result = Return(<<97, 97, 60, 124, 60>>)

\* C10: a constructed Encoding has no two keys of one rank, and its decoder
\* is the inverse of its rank table.
C10_DecoderIsInverse ==
  Ran("constructor")
    => /\ DistinctRanks(mergeableRanks)
       /\ \A k \in DOMAIN mergeableRanks.get :
            decoder.get[mergeableRanks.get[k]] = keyToBytes(k)

\* The bytes the tokens of the call decode to.
CallBytes == decodeBytes(This, call.tokens).value

\* Well-formed UTF-8 (the byte sequences of the Unicode Standard, table 3-7),
\* from byte i on.
RECURSIVE WellFormedUtf8(_, _)
WellFormedUtf8(bytes, i) ==
  LET n          == Len(bytes)
      in(j, a, b) == j <= n /\ a <= bytes[j] /\ bytes[j] <= b
      cont(j)    == in(j, 128, 191)
  IN IF i > n THEN TRUE
     ELSE IF in(i, 0, 127) THEN WellFormedUtf8(bytes, i + 1)
     ELSE IF in(i, 194, 223) /\ cont(i + 1) THEN WellFormedUtf8(bytes, i + 2)
     ELSE IF \/ in(i, 224, 224) /\ in(i + 1, 160, 191) /\ cont(i + 2)
             \/ in(i, 225, 236) /\ cont(i + 1) /\ cont(i + 2)
             \/ in(i, 237, 237) /\ in(i + 1, 128, 159) /\ cont(i + 2)
             \/ in(i, 238, 239) /\ cont(i + 1) /\ cont(i + 2)
       THEN WellFormedUtf8(bytes, i + 3)
     ELSE IF \/ in(i, 240, 240) /\ in(i + 1, 144, 191) /\ cont(i + 2) /\ cont(i + 3)
             \/ in(i, 241, 243) /\ cont(i + 1) /\ cont(i + 2) /\ cont(i + 3)
             \/ in(i, 244, 244) /\ in(i + 1, 128, 143) /\ cont(i + 2) /\ cont(i + 3)
       THEN WellFormedUtf8(bytes, i + 4)
     ELSE FALSE

\* The call decodes tokens, all of them known, to malformed UTF-8.
DecodesMalformed ==
  /\ Ran("decode")
  /\ decodeBytes(This, call.tokens).status = "ok"
  /\ ~WellFormedUtf8(CallBytes, 1)

\* How often the string t occurs in s.
Occurrences(t, s) ==
  Cardinality({i \in 1..(Len(s) - Len(t) + 1) : SubSeq(s, i, i + Len(t) - 1) = t})

\* C11: decode(tokens, 'ignore') of malformed bytes returns a text whose only
\* replacement characters are those encoded in the bytes (each occurrence of
\* EF BF BD), and the text differs from that of decode(tokens, 'replace').
C11_IgnoreDropsMalformed ==
  (DecodesMalformed /\ call.errors = "ignore")
    => /\ result.status = "ok"
       /\ Occurrences(<<ReplacementChar>>, result.value)
            = Occurrences(Utf8OfScalar(ReplacementChar), CallBytes)
       /\ result # decode(This, call.tokens, "replace")

\* C12: decode with 'strict' throws and returns no string exactly when the
\* concatenated bytes are malformed; with 'replace' it never throws on bytes
\* and puts a replacement character for a malformed sequence; in both modes
\* well-formed concatenated bytes give the text they encode, also when a code
\* point is split across tokens.
C12_StrictAndReplace ==
  (Ran("decode") /\ decodeBytes(This, call.tokens).status = "ok")
    => /\ call.errors = "strict" /\ ~WellFormedUtf8(CallBytes, 1)
            => (result.status = "throw" /\ result.value = <<>>)
       /\ call.errors = "replace" /\ ~WellFormedUtf8(CallBytes, 1)
            => (result.status = "ok" /\ ReplacementChar \in Range(result.value))
       /\ call.errors \in {"strict", "replace"} /\ WellFormedUtf8(CallBytes, 1)
            => (result.status = "ok" /\ TextEncode(result.value) = CallBytes)

\* U+00E9 split across two tokens, one byte each, decodes to U+00E9 in the
\* strict mode.
C12_Witness ==
  /\ Ran("decode")
  /\ call.errors = "strict"
  /\ call.tokens = <<BaseRank(195), BaseRank(169)>>
  /\ result = Return(<<233>>)

\* C13: encodeSingleToken of a string that is a key of the special-token table
\* returns its special id; of any other string, or of bytes, the rank of the
\* whole byte sequence; it throws when the input is a key of neither table;
\* what it returns is a value of one of the two tables.
C13_EncodeSingleToken ==
  Ran("encodeSingleToken")
    => LET input == call.input
           bytes == IF input.type = "string" THEN TextEncode(input.value)
                    ELSE input.value
           key   == bytesToKey(bytes)
       IN /\ IF input.type = "string" /\ input.value \in Registered
               THEN result = Return(specialTokens.get[input.value])
             ELSE IF key \in DOMAIN mergeableRanks.get
               THEN result = Return(mergeableRanks.get[key])
             ELSE result.status = "throw"
          /\ result.status = "ok"
               => result.value \in MapValues(mergeableRanks) \cup MapValues(specialTokens)

\* C18: decodeTokensBytes throws exactly when decodeBytes of the same tokens
\* throws; otherwise it returns one byte sequence per token, in order, each
\* that of the ordinary table when the id is there and of the special table
\* otherwise, and their concatenation is what decodeBytes returns;
\* decodeSingleTokenBytes(t) is decodeBytes([t]).
C18_PerTokenBytes ==
  /\ Ran("decodeTokensBytes")
       => LET whole == decodeBytes(This, call.tokens)
          IN /\ result.status = whole.status
             /\ result.status = "ok"
                  => /\ Len(result.value) = Len(call.tokens)
                     /\ \A i \in 1..Len(call.tokens) :
                          result.value[i] = IdBytes(call.tokens[i])
                     /\ Flatten(result.value) = whole.value
  /\ Ran("decodeSingleTokenBytes")
       => result = decodeBytes(This, <<call.token>>)

\* Per-token bytes of the id 256, a rank and a special id at once, and of a
\* special id: "aa" and "<|<".
C18_Witness ==
  /\ Ran("decodeTokensBytes")
  /\ call.tokens = <<256, 1000>>
  /\ MapHas(specialTokensDecoder, 256)
  /\ result = Return(<< <<97, 97>>, <<60, 124, 60>> >>)

(* -------------------- claims about calls in sequence ------------------- *)

\* The instance as the constructor made it from its tables: the pattern newly
\* compiled, its lastIndex 0.
Fresh == [This EXCEPT !.specialLastIndex = 0]

\* C14: whatever calls were made before, on whatever task, a call of encode,
\* encodeOrdinary, decodeBytes or decode has the outcome (tokens, bytes, text or
\* throw) that the same call has as the first call on the instance.
C14_Determinism ==
  \A t \in Tasks :
    tasks[t].pc = "done" => tasks[t].result = RunCall(Fresh, tasks[t].call)

\* One task's encode threw for a disallowed special token; the other task's
\* encode of the text "<|<|" with allowedSpecial 'all' gives the special id twice.
C14_Witness ==
  /\ tasks["t1"].pc = "done"
  /\ tasks["t1"].result = Throw("disallowed special token")
  /\ tasks["t2"].pc = "done"
  /\ tasks["t2"].call.op = "encode"
  /\ tasks["t2"].call.text = TokX \o TokX
  /\ tasks["t2"].result = Return(<<1000, 1000>>)

\* C16: a call of one task on the shared instance returns what it returns on
\* an instance no other call has used, and it leaves the fields of the
\* instance, the scan position of the special-token pattern and the other
\* tasks' outcomes as they were.
C16_TasksDoNotInterfere ==
  [][\A t \in Tasks :
       (tasks[t].pc = "idle" /\ tasks'[t].pc = "done")
         => /\ tasks'[t].result = RunCall(Fresh, tasks'[t].call)
            /\ specialLastIndex' = specialLastIndex
            /\ UNCHANGED instanceVars
            /\ \A u \in Tasks \ {t} : tasks'[u] = tasks[u]]_vars

\* Both tasks hold outcomes of calls on the one instance: tokens of
\* encodeOrdinary("<|") with the merged rank, and bytes of decodeBytes.
C16_Witness ==
  /\ tasks["t1"].pc = "done"
  /\ tasks["t1"].call.op = "encodeOrdinary"
  /\ tasks["t1"].result = Return(<<262>>)
  /\ tasks["t2"].pc = "done"
  /\ tasks["t2"].call.op = "decodeBytes"
  /\ tasks["t2"].result.status = "ok"

\* C15: a method call on a constructed Encoding, returning or throwing, leaves
\* the rank table, the special-token table and the two decode tables as they
\* were, and leaves the caller's allowedSpecial and disallowedSpecial Sets as
\* they were passed.
C15_MethodsChangeNoTable ==
  [][(encPc = "ready" /\ encPc' = "done")
       => /\ UNCHANGED <<mergeableRanks, specialTokens, decoder, specialTokensDecoder>>
          /\ call'.op = "encode"
               => /\ call'.allowedAfter = call'.allowedSpecial
                  /\ call'.disallowedAfter = call'.disallowedSpecial]_vars

\* An encode that threw for the disallowed "<|" of the caller's Set: the Set
\* and the tables are as before.
C15_Witness ==
  /\ Ran("encode")
  /\ result.status = "throw"
  /\ call.disallowedSpecial = SetOf({TokX})
  /\ call.disallowedAfter = SetOf({TokX})
  /\ MapSize(decoder) = MapSize(mergeableRanks)
  /\ MapSize(specialTokensDecoder) = MapSize(specialTokens)

(* ------------------ claims about gaps and boundaries ------------------- *)

\* The single bytes that are no key of the rank table.
MissingBytes == {b \in Byte : bytesToKey(<<b>>) \notin DOMAIN mergeableRanks.get}

\* The pieces of the text of the call, as bytes.
CallPieces ==
  LET matches == PatternMatches(patStr, CodePoints(call.text), 1)
  IN [i \in 1..Len(matches) |-> TextEncode(UnitsOf(matches[i]))]

\* The piece is no key, and merging it leaves a segment that is no key.
Uncovered(piece) ==
  /\ bytesToKey(piece) \notin DOMAIN mergeableRanks.get
  /\ \E seg \in Range(RefMerge(mergeableRanks, [i \in 1..Len(piece) |-> <<piece[i]>>])) :
       bytesToKey(seg) \notin DOMAIN mergeableRanks.get

VocabularyGapErrors == {"single byte not in vocabulary", "sequence not in vocabulary"}

C20_EmptyInputs ==
  /\ (Ran("encodeOrdinary") /\ call.text = <<>>) => result = Return(<<>>)
  /\ (Ran("encode") /\ call.text = <<>>) => result = Return(<<>>)
  /\ (Ran("decodeBytes") /\ call.tokens = <<>>) => result = Return(<<>>)
  /\ (Ran("decode") /\ call.tokens = <<>>) => result = Return(<<>>)

\* encode("") with a disallowed Set and special tokens registered.
C20_Witness ==
  /\ Ran("encode")
  /\ call.text = <<>>
  /\ call.disallowedSpecial = SetOf({TokX})
  /\ TokX \in Registered
  /\ result = Return(<<>>)

\* The outcome of encoding one piece on its own, from its bytes alone.
PieceOutcome(piece) ==
  IF MapHas(mergeableRanks, bytesToKey(piece))
    THEN Return(<<MapGet(mergeableRanks, bytesToKey(piece))>>)
    ELSE BpeEncode(mergeableRanks, piece)

\* The bytes of a sequence of ordinary tokens, by the decoder table.
BytesOfTokens(tokens) == Flatten([j \in 1..Len(tokens) |-> MapGet(decoder, tokens[j])])

SpecialIdsDisjoint ==
  /\ HasAllBytes(mergeableRanks)
  /\ DistinctRanks(mergeableRanks)
  /\ MapValues(specialTokens) \cap MapValues(mergeableRanks) = {}

\* C27: for a well-formed rank table (all single bytes, distinct ranks) and
\* special-token ids that are no ranks, encode(text, {allowedSpecial: 'all'})
\* succeeds for every valid text, also one holding registered special-token
\* strings, and decode of its tokens returns exactly the text.
C27_RoundTripWithSpecial ==
  (/\ Ran("encode")
   /\ call.allowedSpecial = All
   /\ call.disallowedSpecial = Undefined
   /\ WellFormed(call.text)
   /\ SpecialIdsDisjoint)
    => /\ result.status = "ok"
       /\ decodeBytes(This, result.value) = Return(TextEncode(call.text))
       /\ \A errors \in ErrorModes :
            decode(This, result.value, errors) = Return(call.text)

\* A text of ordinary text and a special token: both kinds of token were
\* emitted, and the text comes back.
C27_Witness ==
  /\ Ran("encode")
  /\ call.allowedSpecial = All
  /\ call.disallowedSpecial = Undefined
  /\ SpecialIdsDisjoint
  /\ result.status = "ok"
  /\ \E j \in 1..Len(result.value) : result.value[j] \in MapValues(specialTokens)
  /\ \E j \in 1..Len(result.value) : result.value[j] \in MapValues(mergeableRanks)
  /\ decode(This, result.value, "replace") = Return(call.text)

\* The tokens of the set A that occur in text at the 0-based index p.
AllowedAt(text, A, p) == {t \in A : OccursAt(text, t, p)}

\* The outcomes of a scan that looks only for the tokens of A, from the
\* consumed position from: at the leftmost index where a token of A occurs the
\* text before it is encoded as ordinary text, a token of A occurring there
\* gives its id, and the scan goes on behind it; the rest is ordinary text.
RECURSIVE RefScanOnly(_, _, _)
RefScanOnly(text, A, from) ==
  LET at == {p \in from..(Len(text) - 1) : AllowedAt(text, A, p) # {}}
  IN IF at = {}
       THEN {IF from < Len(text) THEN encodeOrdinary(This, Slice(text, from, Len(text)))
             ELSE Return(<<>>)}
     ELSE LET p      == CHOOSE q \in at : \A r \in at : q <= r
              before == encodeOrdinary(This, Slice(text, from, p))
          IN IF before.status = "throw" THEN {before}
             ELSE UNION { { IF rest.status = "throw" THEN rest
                            ELSE Return((before.value \o <<specialTokens.get[t]>>)
                                          \o rest.value)
                            : rest \in RefScanOnly(text, A, p + Len(t)) }
                          : t \in AllowedAt(text, A, p) }

\* C23: with allowedSpecial a set A and disallowedSpecial an explicit set of
\* which nothing occurs in the text, encode gives an outcome of the
\* left-to-right scan that looks only for the tokens of A: registered special
\* tokens outside A are ordinary text, also where one starts earlier than,
\* overlaps or is a prefix of an occurrence of a token of A.
C23_ScanForAllowedOnly ==
  (/\ Ran("encode")
   /\ call.allowedSpecial.kind = "set"
   /\ call.disallowedSpecial.kind = "set"
   /\ \A t \in call.disallowedSpecial.set : ~Includes(call.text, t))
    => result \in RefScanOnly(call.text, call.allowedSpecial.set \cap Registered, 0)

(* ---------------------- claims about the registry ---------------------- *)

\* C17: for every name all getEncoding calls that have succeeded returned one
\* and the same instance, and at most one Encoding was constructed for the
\* name, also when calls started while a load of the name was under way.
C17_OneEncodingPerName ==
  \A name \in EncodingNames :
    /\ Cardinality(returned[name]) <= 1
    /\ constructs[name] <= 1

\* Every entry of the instance cache is an Encoding that was constructed for
\* its name.
CacheHoldsEncodings(cache) ==
  \A name \in DOMAIN cache.get :
    /\ name \in EncodingNames
    /\ MapGet(cache, name).name = name
    /\ MapGet(cache, name).serial \in 1..MaxLoads

\* C29: a getEncoding call that fails (unknown name, fetch failure, hash
\* mismatch, construction error) leaves the instance cache as it was: no
\* entry is added, the entries of other names are kept.  No failure and no
\* partly built instance is ever cached: a later call for a name without an
\* Encoding starts the load again, and only an unknown name is rejected
\* without a load.
C29_FailureLeavesCache ==
  [][ /\ CacheHoldsEncodings(encodingCache')
      /\ \A c \in Callers :
           /\ (callers[c].pc # "rejected" /\ callers'[c].pc = "rejected")
                => /\ encodingCache' = encodingCache
                   /\ constructs' = constructs
                   /\ callers'[c].value = NoInstance
           /\ (callers[c].pc = "idle" /\ callers'[c].pc = "rejected")
                => callers'[c].name \notin EncodingNames
           /\ (callers[c].pc = "idle" /\ callers'[c].pc = "resolved")
                => /\ MapHas(encodingCache, callers'[c].name)
                   /\ callers'[c].value = MapGet(encodingCache, callers'[c].name)
           /\ (callers[c].pc = "idle" /\ callers'[c].name \in EncodingNames
                 /\ ~MapHas(encodingCache, callers'[c].name))
                => callers'[c].pc = "loading"
    ]_vars

\* A load of cl100k_base has failed while r50k_base was cached: the entry of
\* r50k_base is kept, cl100k_base has none, and a later call is loading it again.
C29_Witness ==
  /\ loads["cl100k_base"] = 2
  /\ constructs["cl100k_base"] = 0
  /\ ~MapHas(encodingCache, "cl100k_base")
  /\ MapHas(encodingCache, "r50k_base")
  /\ \E c \in Callers :
       /\ callers[c].pc = "loading"
       /\ callers[c].name = "cl100k_base"
       /\ \A d \in Callers \ {c} : callers[d].pc = "idle"

(* ----------------------- claims about the loader ----------------------- *)

\* The rank table the text parses to.
ParseFile(text) == ParseLines(text, EmptyMap)

\* Some text with that digest parses to the table.
ParsedFromTextOf(hash, table) ==
  \E i \in 1..Len(FileTexts) : Sha256(FileTexts[i]) = hash /\ table = ParseFile(FileTexts[i])

\* The hash verification of a step of loadTiktokenBpe, for the expectedHash
\* arguments of the set Given: a returned table was parsed from text of that
\* digest; a fetched text of another digest makes the call fail with no table;
\* a cache hit is a record stored with the expected hash; the store changes
\* only by the write of a call that has verified its text against the hash it
\* stores and that returns, and every record holds a table parsed from text of
\* the digest stored with it.
HashVerified(Given) ==
  /\ (loader'.pc = "done" /\ loader'.expectedHash \in Given
        /\ loader'.result.status = "ok")
       => ParsedFromTextOf(loader'.expectedHash, loader'.result.value)
  /\ (loader.pc = "fetch" /\ loader'.expectedHash \in Given
        /\ loader'.response.kind = "ok"
        /\ Sha256(loader'.response.text) # loader'.expectedHash)
       => /\ loader'.pc = "done"
          /\ loader'.result = Throw("Hash mismatch")
          /\ idb' = idb
  /\ (loader.pc = "cache read" /\ loader'.cacheRead = "hit")
       => /\ MapHas(idb, CacheName(loader.url))
          /\ MapGet(idb, CacheName(loader.url)).hash = loader.expectedHash
  /\ idb' # idb
       => /\ loader.pc = "cache write"
          /\ Sha256(loader.response.text) = loader.expectedHash
          /\ loader'.result = Return(ParseFile(loader.response.text))
          /\ idb' = MapSet(idb, CacheName(loader.url),
                           [data |-> Entries(ParseFile(loader.response.text)),
                            hash |-> loader.expectedHash])
  /\ \A name \in DOMAIN idb'.get :
       ParsedFromTextOf(MapGet(idb', name).hash,
                        MapSetAll(EmptyMap, MapGet(idb', name).data))

\* C28 as stated: loadTiktokenBpe with a non-null expectedHash returns a
\* rank table only if it was parsed from text whose SHA-256 is expectedHash; on
\* a mismatch the call fails, returns no table and writes nothing to the
\* store; a cached record is returned only when the hash stored with it is
\* expectedHash; every record was written after a successful verification
\* against the hash stored with it.
C28_VerifiedWhenNonNull == [][HashVerified(ExpectedHashes \ {Null})]_vars

\* C28, amended: the same for an expectedHash that is neither null nor the
\* empty string.
C28_VerifiedWhenNonEmpty == [][HashVerified({h \in ExpectedHashes : Truthy(h)})]_vars

\* A call has returned the table of a record that an earlier call stored
\* under the expected hash.
C28_Witness ==
  /\ loader.pc = "done"
  /\ Truthy(loader.expectedHash)
  /\ loader.cacheRead = "hit"
  /\ loader.result = Return(ParseFile(FileTexts[1]))
  /\ MapGet(idb, CacheName(loader.url)).hash = loader.expectedHash

\* What a run without any cache returns for the response of the fetch.
NoCacheOutcome(expectedHash, response) ==
  IF response.kind = "rejected" THEN Throw("fetch rejected")
  ELSE IF response.kind = "not ok" THEN Throw("Failed to fetch")
  ELSE IF expectedHash \notin {Null, <<>>} /\ Sha256(response.text) # expectedHash
    THEN Throw("Hash mismatch")
  ELSE Return(ParseFile(response.text))

\* C30: a failing cache read makes loadTiktokenBpe go on to the fetch, a
\* failing cache write after a successful fetch and verification does not
\* fail the call, and in both cases the call ends as a run without any cache
\* would for the same response.
C30_CacheNotRequired ==
  [][ /\ (loader.pc = "cache read" /\ loader'.cacheRead = "failed")
           => loader'.pc = "fetch"
      /\ (loader.pc = "cache write" /\ loader'.cacheWrite = "failed")
           => /\ loader'.result.status = "ok"
              /\ idb' = idb
      /\ (loader'.pc = "done"
            /\ (loader'.cacheRead = "failed" \/ loader'.cacheWrite = "failed"))
           => loader'.result = NoCacheOutcome(loader'.expectedHash, loader'.response)
    ]_vars

\* Both the read and the write of the cache have failed, and the call has
\* returned the table of the fetched text.
C30_Witness ==
  /\ loader.pc = "done"
  /\ loader.cacheRead = "failed"
  /\ loader.cacheWrite = "failed"
  /\ loader.result = Return(ParseFile(loader.response.text))
  /\ MapSize(loader.result.value) = 2

=============================================================================
